---- MODULE Spec2Model ----
(***************************************************************************)
(* Plan-based column transformation engine of the AutoML cleaning pipeline *)
(* (src/backend/*.py, src/tp/backend.py), as a state machine.              *)
(*                                                                         *)
(* A dataset (pandas DataFrame) is a record [nrows, cols]; a column is a   *)
(* record [name, dtype, vals] and a cell is NA, Num(n) or Str(s).          *)
(* A number x of the program is the integer x * Unit (fixed point, step    *)
(* 0.005): quantiles of whole numbers, the IQR bounds and their rounding   *)
(* to two decimals are exact; a mean or a median is rounded down to the    *)
(* step.                                                                   *)
(***************************************************************************)
EXTENDS Integers, Sequences, FiniteSets, TLC

(* ----------------------------- cells ---------------------------------- *)

\* 0.01 is the step of round(x, 2); half of it also holds the eighths that
\* Q1 - 1.5 * IQR makes of whole numbers.
Unit == 2 * 100

NA == [t |-> "na", v |-> 0, s |-> ""]
Num(n) == [t |-> "n", v |-> n, s |-> ""]
\* The whole number n.
V(n) == Num(n * Unit)
Str(x) == [t |-> "s", v |-> 0, s |-> x]
IsNA(c) == c.t = "na"

\* ASCII order of the strings the datasets use (Python's sorted on str).
StrOrder == <<"1", "2", "3", "a", "b", "c", "nan">>
StrRank(x) == CHOOSE i \in 1..Len(StrOrder) : StrOrder[i] = x

\* What float() makes of a string: the numeric strings parse, the rest raise.
Parses(x) == x \in {"1", "2", "3"}
ParseNum(x) ==
  CASE x = "1" -> Unit [] x = "2" -> 2 * Unit [] x = "3" -> 3 * Unit [] OTHER -> 0

\* A total order on the cells of one column: numbers by value, strings by
\* ASCII order; numbers before strings (never mixed in one sorted call).
CellLess(a, b) ==
  IF a.t = "n" /\ b.t = "n" THEN a.v < b.v
  ELSE IF a.t = "s" /\ b.t = "s" THEN StrRank(a.s) < StrRank(b.s)
  ELSE a.t = "n" /\ b.t = "s"

\* The text of a cell as pandas prints it in a dummy column's name.
CellText(c, dtype) ==
  IF c.t = "s" THEN c.s
  ELSE IF dtype = "float64" THEN ToString(c.v \div Unit) \o ".0"
  ELSE ToString(c.v \div Unit)

(* ------------------------- sequences helpers --------------------------- *)

Range(s) == {s[i] : i \in DOMAIN s}
\* The elements of s at the positions that Keep holds of, in their order.
SelectIdx(s, Keep(_)) ==
  LET kept == SelectSeq([i \in 1..Len(s) |-> i], Keep)
  IN [k \in 1..Len(kept) |-> s[kept[k]]]
SumSeq(s) ==
  LET F[i \in 0..Len(s)] == IF i = 0 THEN 0 ELSE F[i-1] + s[i]
  IN F[Len(s)]
\* The elements of a finite set of integers in ascending order (CPython's
\* iteration order of a set of small non-negative ints).
SetToSeq(S) ==
  LET F[T \in SUBSET S] ==
        IF T = {} THEN <<>>
        ELSE LET m == CHOOSE x \in T : \A y \in T : x <= y
             IN <<m>> \o F[T \ {m}]
  IN F[S]

\* The elements of a finite set in some order.
RECURSIVE SetToSeqOf(_)
SetToSeqOf(S) ==
  IF S = {} THEN <<>>
  ELSE LET x == CHOOSE y \in S : TRUE IN <<x>> \o SetToSeqOf(S \ {x})

(* ----------------------------- columns --------------------------------- *)

Col(name, dtype, vals) == [name |-> name, dtype |-> dtype, vals |-> vals]
ColNames(df) == [i \in 1..Len(df.cols) |-> df.cols[i].name]
HasCol(df, name) == \E i \in 1..Len(df.cols) : df.cols[i].name = name
ColIdx(df, name) == CHOOSE i \in 1..Len(df.cols) : df.cols[i].name = name
GetCol(df, name) == df.cols[ColIdx(df, name)]
SetVals(df, name, dtype, vals) ==
  [df EXCEPT !.cols[ColIdx(df, name)] = Col(name, dtype, vals)]
\* df.drop(columns=names): the other columns, in their order.
DropCols(df, names) ==
  [df EXCEPT !.cols = SelectIdx(df.cols, LAMBDA i : df.cols[i].name \notin names)]

\* Series.dropna(): nothing is left of a column that is all NaN, and a
\* column without NaN is left whole.
NonNA(vals) ==
  IF \A i \in 1..Len(vals) : IsNA(vals[i]) THEN <<>>
  ELSE IF \A i \in 1..Len(vals) : ~IsNA(vals[i]) THEN vals
  ELSE SelectIdx(vals, LAMBDA i : ~IsNA(vals[i]))
CellValues(cells) == [i \in 1..Len(cells) |-> cells[i].v]
NumVals(vals) == CellValues(NonNA(vals))
\* isnull().sum() and nunique(): NaN is counted by the one and left out by
\* the other.
CountNA(vals) == Cardinality({i \in 1..Len(vals) : IsNA(vals[i])})
NUnique(vals) == Cardinality({vals[i] : i \in {j \in 1..Len(vals) : ~IsNA(vals[j])}})
IsObject(dtype) == dtype \in {"object", "category"}
IsNumericDtype(dtype) == dtype \in {"float64", "int64", "bool"}
IsFloatOrInt64(dtype) == dtype \in {"float64", "int64"}

\* round(count / len * 100, 2) in hundredths of a percent; -1 is NaN (0/0).
Pct(count, n) == IF n = 0 THEN -1 ELSE (2 * count * 10000 + n) \div (2 * n)

(* --------------------------- data_utils.py ----------------------------- *)

\* get_df_info: one descriptor per column, ids 1..N in the frame's order.
get_df_info(df) ==
  [i \in 1..Len(df.cols) |->
     [id |-> i,
      column_name |-> df.cols[i].name,
      dtype |-> df.cols[i].dtype,
      percentage_unique |-> Pct(NUnique(df.cols[i].vals), df.nrows),
      percentage_missing |-> Pct(CountNA(df.cols[i].vals), df.nrows)]]

(* ----------------------------- statistics ------------------------------ *)

SortInts(s) == SortSeq(s, LAMBDA a, b : a < b)
\* Series.mean / median of the non-missing numbers; "nan" when there is none.
MeanOf(xs) == IF Len(xs) = 0 THEN NA ELSE Num(SumSeq(xs) \div Len(xs))
Mean(vals) == MeanOf(NumVals(vals))
MedianOfSorted(xs) ==
  IF Len(xs) = 0 THEN NA
  ELSE IF Len(xs) % 2 = 1 THEN Num(xs[(Len(xs) + 1) \div 2])
  ELSE Num((xs[Len(xs) \div 2] + xs[Len(xs) \div 2 + 1]) \div 2)
Median(vals) == MedianOfSorted(SortInts(NumVals(vals)))
\* Series.mode().iloc[0]: the most frequent non-missing value, the smallest
\* of them on a tie; NA when the series has no value (mode() is empty).
CountOf(xs, c) == Cardinality({i \in 1..Len(xs) : xs[i] = c})
MostFrequent(xs) == {c \in Range(xs) : \A d \in Range(xs) : CountOf(xs, d) <= CountOf(xs, c)}
Smallest(best) == CHOOSE c \in best : \A d \in best : d = c \/ CellLess(c, d)
ModeOf(xs) == IF Len(xs) = 0 THEN NA ELSE Smallest(MostFrequent(xs))
Mode(vals) == ModeOf(NonNA(vals))
\* Series.fillna(val): NaN as val fills nothing.
FillNA(vals, val) ==
  [i \in 1..Len(vals) |-> IF IsNA(vals[i]) /\ ~IsNA(val) THEN val ELSE vals[i]]
\* A conversion that never raises.
CanCoerceAlways(vals) == TRUE
\* pd.to_numeric(series, errors="raise"): every string must parse.
CanCoerce(vals) ==
  \A i \in 1..Len(vals) : vals[i].t = "s" => Parses(vals[i].s)
\* The dtype pd.to_numeric gives all-numeric strings: int64, float64 with NaN.
CoercedDtype(vals) == IF \E i \in 1..Len(vals) : IsNA(vals[i]) THEN "float64" ELSE "int64"
ToNumeric(vals) ==
  [i \in 1..Len(vals) |->
     IF vals[i].t = "s" THEN Num(ParseNum(vals[i].s)) ELSE vals[i]]

\* df[mask]: the rows at the positions rows, in every column.
KeepRows(df, rows) ==
  [nrows |-> Cardinality(rows),
   cols |-> [j \in 1..Len(df.cols) |->
               [df.cols[j] EXCEPT !.vals = SelectIdx(df.cols[j].vals, LAMBDA i : i \in rows)]]]

RECURSIVE GCD(_, _)
GCD(a, b) == IF b = 0 THEN a ELSE GCD(b, a % b)
Abs(x) == IF x < 0 THEN -x ELSE x
GCDSeq(s) ==
  LET F[i \in 0..Len(s)] == IF i = 0 THEN 0 ELSE GCD(F[i-1], Abs(s[i]))
  IN F[Len(s)]
\* floor(sqrt(n)) by bisection on lo..hi.
RECURSIVE IsqrtIn(_, _, _)
IsqrtIn(n, lo, hi) ==
  IF lo >= hi THEN lo
  ELSE LET mid == (lo + hi + 1) \div 2
       IN IF mid * mid <= n THEN IsqrtIn(n, mid, hi) ELSE IsqrtIn(n, lo, mid - 1)
Isqrt(n) == IsqrtIn(n, 0, IF n < 46340 THEN n ELSE 46340)

\* Deviations from the mean, up to a common positive factor: n * x - sum(x),
\* divided by their gcd. Skewness, correlation and z-scores do not depend on
\* the factor.
DivideBy(d, g) == IF g = 0 THEN d ELSE [i \in 1..Len(d) |-> d[i] \div g]
Reduced(d) == DivideBy(d, GCDSeq(d))
Deviations(xs) == Reduced([i \in 1..Len(xs) |-> Len(xs) * xs[i] - SumSeq(xs)])
SumPow(d, k) ==
  LET F[i \in 0..Len(d)] ==
        IF i = 0 THEN 0
        ELSE F[i-1] + (IF k = 2 THEN d[i] * d[i] ELSE d[i] * d[i] * d[i])
  IN F[Len(d)]
\* p1 / q1 < p2 / q2 for non-negative numerators and positive denominators,
\* by continued fractions: no product is formed.
RECURSIVE FracLess(_, _, _, _)
FracLess(p1, q1, p2, q2) ==
  IF p1 \div q1 # p2 \div q2 THEN p1 \div q1 < p2 \div q2
  ELSE IF p2 % q2 = 0 THEN FALSE
  ELSE IF p1 % q1 = 0 THEN TRUE
  ELSE FracLess(q2, p2 % q2, q1, p1 % q1)
\* The sums of the squares and of the cubes of the deviations.
MomentsOf(d) == [n |-> Len(d), D2 |-> SumPow(d, 2), D3 |-> SumPow(d, 3)]
Moments(vals) == MomentsOf(Deviations(NumVals(vals)))
\* abs(Series.skew()) > 1, pandas' adjusted Fisher-Pearson coefficient
\* sqrt(n(n-1))/(n-2) * m3 / m2^1.5, as D3^2 / D2^3 > (n-2)^2 / (n^2 (n-1));
\* NaN (never > 1) below three values or on a constant series.
AbsSkewAbove1(m) ==
  /\ m.n >= 3
  /\ m.D2 > 0
  /\ FracLess((m.n - 2) * (m.n - 2), m.n * m.n * (m.n - 1), m.D3 * m.D3, m.D2 * m.D2 * m.D2)
SkewAbove1(vals) == AbsSkewAbove1(Moments(vals))
\* abs(Series.skew()) < 1; NaN is not below 1 either.
AbsSkewBelow1(m) ==
  /\ m.n >= 3
  /\ m.D2 > 0
  /\ FracLess(m.D3 * m.D3, m.D2 * m.D2 * m.D2, (m.n - 2) * (m.n - 2), m.n * m.n * (m.n - 1))
SkewBelow1(vals) == AbsSkewBelow1(Moments(vals))

\* Series.quantile(q4 / 4), linear interpolation, times 4, of the sorted
\* non-empty s: i whole steps and r quarters into the next one.
Interpolate4(s, i, r) ==
  IF r = 0 THEN 4 * s[i + 1] ELSE 4 * s[i + 1] + r * (s[i + 2] - s[i + 1])
Quantile4(s, q4) == Interpolate4(s, ((Len(s) - 1) * q4) \div 4, ((Len(s) - 1) * q4) % 4)
\* Q1 - 1.5 * IQR and Q3 + 1.5 * IQR, times 8; nan when the column has no value.
Fences(q1, q3) ==
  [nan |-> FALSE, lo8 |-> 2 * q1 - 3 * (q3 - q1), hi8 |-> 2 * q3 + 3 * (q3 - q1)]
IqrOfSorted(s) ==
  IF Len(s) = 0 THEN [nan |-> TRUE, lo8 |-> 0, hi8 |-> 0]
  ELSE Fences(Quantile4(s, 1), Quantile4(s, 3))
IqrBounds(vals) == IqrOfSorted(SortInts(NumVals(vals)))
\* (series < lower) | (series > upper): comparisons with NaN are False.
IsOutlier(c, b) == ~IsNA(c) /\ ~b.nan /\ (8 * c.v < b.lo8 \/ 8 * c.v > b.hi8)
\* (series >= lower) & (series <= upper)
InBounds(c, b) == ~IsNA(c) /\ ~b.nan /\ 8 * c.v >= b.lo8 /\ 8 * c.v <= b.hi8
CountOutliers(vals, b) == Cardinality({i \in 1..Len(vals) : IsOutlier(vals[i], b)})
\* The bound as a cell value: exact when it falls on the step, else the
\* nearest step inside the interval.
LowerCell(b) == -((-b.lo8) \div 8)
UpperCell(b) == b.hi8 \div 8
\* Series.clip(upper=upper): the lower bound is not applied.
ClipUpperOnly(vals, b) ==
  [i \in 1..Len(vals) |->
     IF IsNA(vals[i]) \/ b.nan THEN vals[i]
     ELSE IF 8 * vals[i].v > b.hi8 THEN Num(UpperCell(b))
     ELSE vals[i]]
\* Series.clip(lower, upper): NaN cells stay, NaN bounds clip nothing.
Clip(vals, b) ==
  [i \in 1..Len(vals) |->
     IF IsNA(vals[i]) \/ b.nan THEN vals[i]
     ELSE IF 8 * vals[i].v < b.lo8 THEN Num(LowerCell(b))
     ELSE IF 8 * vals[i].v > b.hi8 THEN Num(UpperCell(b))
     ELSE vals[i]]
\* A clipped integer column turns float64 when a bound that is not a whole
\* number replaces a value.
ClipDtype(dtype, vals, b) ==
  IF \E i \in 1..Len(vals) : Clip(vals, b)[i] # vals[i] /\ Clip(vals, b)[i].v % Unit # 0
  THEN "float64" ELSE dtype

\* abs(DataFrame.corr()) > thr10 / 10 for two columns: Pearson's r over the
\* rows where both have a value; NaN (never above) below two such rows or
\* when one side is constant.
PairedRows(xv, yv) ==
  SelectIdx([i \in 1..Len(xv) |-> i], LAMBDA i : ~IsNA(xv[i]) /\ ~IsNA(yv[i]))
ValuesAt(v, rows) == [i \in 1..Len(rows) |-> v[rows[i]].v]
RAbove(n, C, Vx, Vy, thr10) ==
  /\ n >= 2
  /\ Vx > 0
  /\ Vy > 0
  /\ 100 * C * C > thr10 * thr10 * Vx * Vy
CorrOfDeviations(dx, dy, thr10) ==
  RAbove(Len(dx), SumSeq([i \in 1..Len(dx) |-> dx[i] * dy[i]]), SumPow(dx, 2), SumPow(dy, 2),
         thr10)
CorrOnRows(xv, yv, rows, thr10) ==
  CorrOfDeviations(Deviations(ValuesAt(xv, rows)), Deviations(ValuesAt(yv, rows)), thr10)
CorrAbove(xv, yv, thr10) == CorrOnRows(xv, yv, PairedRows(xv, yv), thr10)

\* round(a / b) to the nearest integer, ties to the even one (b > 0).
RoundHalfEven(a, b) ==
  LET q == a \div b
      r == a % b
  IN IF 2 * r < b THEN q
     ELSE IF 2 * r > b THEN q + 1
     ELSE IF q % 2 = 0 THEN q ELSE q + 1
\* round(x, 2) of a bound held in eighths of the step: hundredths are 16
\* eighths of the step.
Round2(b) ==
  IF b.nan THEN b
  ELSE [b EXCEPT !.lo8 = 16 * RoundHalfEven(b.lo8, 16), !.hi8 = 16 * RoundHalfEven(b.hi8, 16)]

(* ------------------------------ bounds --------------------------------- *)

\* Requests a session receives before the model stops issuing new ones.
MaxReq == 2
\* Of these, the requests that carry a plan.
MaxBatch == 1
\* (action, id) entries of one plan.
MaxPlanLen == 2
\* Largest column id a caller names (-1, 0 and MaxId lie outside 1..N).
MaxId == 4

Ids == (-1)..MaxId
\* Entries of a supplementary plan typed at an uncovered-columns prompt.
MaxExtraLen == 1
\* Supplementary plans typed in one resolution before the caller decides.
MaxRounds == 2
\* The ids typed at a plan prompt: those of the columns on display.
PromptIds == 1..(MaxId - 1)
SessionIds == {"s1", "s2"}

\* A plan {action: [ids]} as its (action, id) entries in the order the
\* nested loops "for action, ids in plan.items(): for cid in ids" visit them:
\* the entries of one action are adjacent, and an id is listed once under it.
Entry(a, c) == [action |-> a, cid |-> c]
Adjacent(p) ==
  \A i, j \in 1..Len(p) :
     (i < j /\ p[i].action = p[j].action) =>
        \A k \in i..j : p[k].action = p[i].action
Plans(actions) ==
  {p \in UNION {[1..n -> {Entry(a, c) : a \in actions, c \in Ids}] : n \in 0..MaxPlanLen} :
     /\ Adjacent(p)
     /\ \A i, j \in 1..Len(p) : p[i] = p[j] => i = j}
\* The ids of a plan read without regard to the action.
IdsOfAnyAction(p, a) == [i \in 1..Len(p) |-> p[i].cid]
\* plan[action], the ids listed under one action ("action in plan" is HasAction).
IdsOf(p, a) ==
  LET keep == SelectIdx(p, LAMBDA i : p[i].action = a)
  IN [i \in 1..Len(keep) |-> keep[i].cid]
HasAction(p, a) == \E i \in 1..Len(p) : p[i].action = a
\* The ids of a plan, whatever their action.
AllIds(p) == {p[i].cid : i \in 1..Len(p)}

\* The subsets of S of at most k elements.
RECURSIVE SubsetsUpTo(_, _)
SubsetsUpTo(S, k) ==
  IF k = 0 THEN {{}}
  ELSE LET P == SubsetsUpTo(S, k - 1) IN P \cup {T \cup {e} : T \in P, e \in S}
\* A plan {action: set(ids)} built by a parse_*_plan: the actions in the
\* order of the dict literal, the ids of a set in ascending order.
PlanSeq(order, S) ==
  LET F[k \in 0..Len(order)] ==
        IF k = 0 THEN <<>>
        ELSE LET ids == SetToSeq({c \in Ids : Entry(order[k], c) \in S})
             IN F[k-1] \o [i \in 1..Len(ids) |-> Entry(order[k], ids[i])]
  IN F[Len(order)]
TypedPlans(order, n) ==
  {PlanSeq(order, S) :
     S \in SubsetsUpTo({Entry(a, c) : a \in Range(order), c \in PromptIds}, n)}

(* ----------------------------- datasets -------------------------------- *)

\* The CSV files a session starts from (pd.read_csv): five rows each.
DataA ==
  [nrows |-> 5,
   cols |-> << Col("age", "float64", <<V(1), NA, V(2), V(9), V(2)>>),
               Col("inc", "int64", <<V(2), V(4), V(4), V(18), V(4)>>),
               Col("city", "object", <<Str("a"), Str("b"), NA, Str("a"), Str("c")>>) >>]
DataB ==
  [nrows |-> 5,
   cols |-> << Col("code", "object", <<Str("1"), Str("2"), NA, Str("2"), Str("3")>>),
               Col("z", "float64", <<NA, NA, NA, V(1), V(2)>>),
               Col("grp", "object", <<Str("a"), Str("a"), Str("b"), Str("b"), Str("b")>>) >>]
Datasets == {DataA, DataB}
\* Ten rows: rain has one value of ten outside its bounds (10 %), temp two
\* (20 %), sky one missing value.
DataC ==
  [nrows |-> 10,
   cols |-> << Col("rain", "int64",
                   <<V(1), V(1), V(1), V(2), V(2), V(2), V(2), V(3), V(3), V(30)>>),
               Col("temp", "float64",
                   <<V(5), V(5), V(5), V(6), V(6), V(6), V(7), V(7), V(40), V(50)>>),
               Col("sky", "object",
                   <<Str("a"), Str("a"), Str("b"), NA, Str("a"), Str("b"), Str("a"),
                     Str("a"), Str("b"), Str("a")>>) >>]
\* A long file: one missing value in the 20001 rows of the text column tag
\* (0.005 % of the rows), and the column note without a value.
BigRows == 20001
DataBig ==
  [nrows |-> BigRows,
   cols |-> << Col("tag", "object", [i \in 1..BigRows |-> IF i = 1 THEN NA ELSE Str("a")]),
               Col("note", "float64", [i \in 1..BigRows |-> NA]) >>]
\* A file of 2009 rows whose column hits holds 201 ones among zeros: the
\* quartiles are 0, so the ones lie outside the bounds, 10.00498 % of the rows.
WideRows == 2009
DataWide ==
  [nrows |-> WideRows,
   cols |-> << Col("hits", "int64",
                   [i \in 1..WideRows |-> IF 10 * i <= WideRows + 1 THEN V(1) ELSE V(0)]) >>]
\* The files of the checks of the suggestion rules.
SuggestDatasets == {DataA, DataB, DataC, DataBig, DataWide}

(* ------------------------------ state ---------------------------------- *)

VARIABLES
  prog,           \* the program this behaviour runs: "http" (backend/backend.py),
                  \* "tp" (tp/backend.py) or "cli" (backend/cli.py)
  SESSION_DATA,   \* storage.py _SESSION_DATA: session id -> stored frame
  SESSION_LOGS,   \* storage.py _SESSION_LOGS: session id -> list of (step, code)
  pending,        \* the HTTP request in flight, NoRequest when there is none
  resp,           \* the last HTTP response
  done,           \* the last request served (history)
  nreq,           \* requests received (history, bounds the model)
  nbatch          \* requests with a plan received (history, bounds the model)

httpVars == <<prog, SESSION_DATA, SESSION_LOGS, pending, resp, done, nreq, nbatch>>

(* ----------------------------- storage.py ------------------------------ *)

\* _load_df raises HTTPException(404) for an id that is not stored.
Stored(sid) == sid \in DOMAIN SESSION_DATA
_load_df(sid) == SESSION_DATA[sid]
\* _save_df: _SESSION_DATA[session_id] = df.copy()
_save_df(data, sid, df) ==
  [s \in DOMAIN data \cup {sid} |-> IF s = sid THEN df ELSE data[s]]
\* A log that takes one entry per line of code.
_logEachLine(logs, sid, step, code) ==
  [s \in DOMAIN logs \cup {sid} |->
     IF s = sid
     THEN (IF sid \in DOMAIN logs THEN logs[sid] ELSE <<>>)
             \o [i \in 1..Len(code) |-> [step |-> step, code |-> <<code[i]>>]]
     ELSE logs[s]]
\* _log: _SESSION_LOGS.setdefault(session_id, []).append((step, code_lines))
_log(logs, sid, step, code) ==
  [s \in DOMAIN logs \cup {sid} |->
     IF s = sid
     THEN Append(IF sid \in DOMAIN logs THEN logs[sid] ELSE <<>>,
                 [step |-> step, code |-> code])
     ELSE logs[s]]
get_logs(sid) == IF sid \in DOMAIN SESSION_LOGS THEN SESSION_LOGS[sid] ELSE <<>>

\* One line of generated notebook code: the operation and the columns it names.
Line(op, names) == [op |-> op, cols |-> names]
NoColumns == <<>>
\* A response: the descriptors under "columns", the names under "dropped" or
\* "columns_to_drop".
Ok(message, columns) ==
  [status |-> 200, message |-> message, columns |-> columns, names |-> <<>>]
OkNames(message, names) ==
  [status |-> 200, message |-> message, columns |-> NoColumns, names |-> names]
NotFound ==
  [status |-> 404, message |-> "Session not found", columns |-> NoColumns, names |-> <<>>]
ServerError ==
  [status |-> 500, message |-> "Internal Server Error", columns |-> NoColumns, names |-> <<>>]
\* A request: the endpoint, the session id and the plan of the payload; auto
\* is CorrelationPlan.auto_drop.
Request(op, sid, plan, auto) == [op |-> op, sid |-> sid, plan |-> plan, auto |-> auto]
NoRequest == Request("none", "", <<>>, FALSE)
Served(r) == r

\* The frame a handler works on is the stored object itself (_load_df returns
\* it without a copy): an assignment df[col] = ... changes the stored frame
\* too, until the handler rebinds df to a new frame (df = df.drop(...)).
Work(df) == [df |-> df, stored |-> df, aliased |-> TRUE, logs |-> <<>>, err |-> FALSE]
Assign(st, newdf) ==
  [st EXCEPT !.df = newdf, !.stored = IF st.aliased THEN newdf ELSE st.stored]
Rebind(st, newdf) == [st EXCEPT !.df = newdf, !.aliased = FALSE]
AddLog(st, line) == [st EXCEPT !.logs = Append(st.logs, line)]
Raise(st) == [st EXCEPT !.err = TRUE]

\* [cols[cid-1] for cid in ids if 1 <= cid <= len(cols)]
ValidNames(cols, ids) ==
  LET keep == SelectIdx(ids, LAMBDA i : 1 <= ids[i] /\ ids[i] <= Len(cols))
  IN [i \in 1..Len(keep) |-> cols[keep[i]]]

\* Every handler starts with _load_df, which raises 404 for an unknown id.
Handles(p, op) ==
  /\ prog = p
  /\ pending.op = op
  /\ pending' = NoRequest
  /\ done' = Served(pending)
  /\ UNCHANGED <<prog, nreq, nbatch>>
Rejects ==
  /\ resp' = NotFound
  /\ UNCHANGED <<SESSION_DATA, SESSION_LOGS>>

\* A handler that logs what it had collected when the exception came.
FinishLoggingPartial(sid, st, step, body) ==
  /\ SESSION_DATA' = IF st.err THEN [SESSION_DATA EXCEPT ![sid] = st.stored]
                      ELSE _save_df(SESSION_DATA, sid, st.df)
  /\ SESSION_LOGS' = IF st.logs # <<>>
                     THEN _log(SESSION_LOGS, sid, step, st.logs)
                     ELSE SESSION_LOGS
  /\ resp' = IF st.err THEN ServerError ELSE body
\* The handler's effect on the store, the log and the response, given the
\* outcome st of its loop: an exception leaves what was assigned in place
\* through the alias, saves nothing and logs nothing.
Finish(sid, st, step, body) ==
  IF st.err
  THEN /\ SESSION_DATA' = [SESSION_DATA EXCEPT ![sid] = st.stored]
       /\ UNCHANGED SESSION_LOGS
       /\ resp' = ServerError
  ELSE /\ SESSION_DATA' = _save_df(SESSION_DATA, sid, st.df)
       /\ SESSION_LOGS' = IF st.logs # <<>>
                          THEN _log(SESSION_LOGS, sid, step, st.logs)
                          ELSE SESSION_LOGS
       /\ resp' = body

(* --------------------- backend.py: GET /info --------------------------- *)

get_session_info ==
  /\ Handles("http", "info")
  /\ UNCHANGED <<SESSION_DATA, SESSION_LOGS>>
  /\ resp' = IF Stored(pending.sid)
             THEN Ok("info", get_df_info(_load_df(pending.sid)))
             ELSE NotFound

(* ------------------- backend.py: POST /clean/drop ---------------------- *)

api_drop_columns ==
  /\ Handles("http", "drop")
  /\ IF ~Stored(pending.sid) THEN Rejects
     ELSE LET sid == pending.sid
              df == _load_df(sid)
              to_drop == ValidNames(ColNames(df), IdsOf(pending.plan, "drop"))
              out == DropCols(df, Range(to_drop))
          IN /\ resp' = Ok("ok", get_df_info(out))
             /\ IF to_drop # <<>>
                THEN /\ SESSION_DATA' = _save_df(SESSION_DATA, sid, out)
                     /\ SESSION_LOGS' =
                          _log(SESSION_LOGS, sid, "Drop Columns", <<Line("drop", to_drop)>>)
                ELSE UNCHANGED <<SESSION_DATA, SESSION_LOGS>>

(* ------------------ backend.py: POST /clean/missing -------------------- *)

MissingActions == {"mean", "median", "mode", "drop_col"}

\* One (action, cid) pass of the loop body of api_missing_apply; cols is the
\* list of column names taken when the handler started.
missing_apply_one(st, cols, action, cid) ==
  IF st.err \/ ~(1 <= cid /\ cid <= Len(cols)) THEN st
  ELSE
    LET col == cols[cid] IN
    IF ~HasCol(st.df, col) THEN Raise(st)          \* df[col]: KeyError
    ELSE
      LET c == GetCol(st.df, col)
          is_cat == IsObject(c.dtype)
          failed == action \in {"mean", "median"} /\ is_cat /\ ~CanCoerce(c.vals)
          convert == action \in {"mean", "median"} /\ is_cat /\ CanCoerce(c.vals)
          st1 == IF convert
                 THEN AddLog(Assign(st, SetVals(st.df, col, CoercedDtype(c.vals),
                                                   ToNumeric(c.vals))),
                             Line("to_numeric", <<col>>))
                 ELSE st
          c1 == GetCol(st1.df, col)
      IN IF failed THEN st                          \* except Exception: continue
         ELSE CASE action = "mean" ->
                     AddLog(Assign(st1, SetVals(st1.df, col, c1.dtype,
                                                FillNA(c1.vals, Mean(c1.vals)))),
                            Line("mean", <<col>>))
                [] action = "median" ->
                     AddLog(Assign(st1, SetVals(st1.df, col, c1.dtype,
                                                FillNA(c1.vals, Median(c1.vals)))),
                            Line("median", <<col>>))
                [] action = "mode" ->
                     IF IsNA(Mode(c1.vals)) THEN st1
                     ELSE AddLog(Assign(st1, SetVals(st1.df, col, c1.dtype,
                                                     FillNA(c1.vals, Mode(c1.vals)))),
                                 Line("mode", <<col>>))
                [] action = "drop_col" ->
                     AddLog(Rebind(st1, DropCols(st1.df, {col})), Line("drop", <<col>>))
                [] OTHER -> st1

\* A loop that reads each id against the columns as they are by then.
missing_apply_loopRenumbering(df, plan) ==
  LET F[i \in 0..Len(plan)] ==
        IF i = 0 THEN Work(df)
        ELSE missing_apply_one(F[i-1], ColNames(F[i-1].df), plan[i].action, plan[i].cid)
  IN F[Len(plan)]
\* The two nested loops over payload.plan.
missing_apply_loop(df, plan) ==
  LET cols == ColNames(df)
      F[i \in 0..Len(plan)] ==
        IF i = 0 THEN Work(df)
        ELSE missing_apply_one(F[i-1], cols, plan[i].action, plan[i].cid)
  IN F[Len(plan)]

api_missing_apply ==
  /\ Handles("http", "missing")
  /\ IF ~Stored(pending.sid) THEN Rejects
     ELSE LET st == missing_apply_loop(_load_df(pending.sid), pending.plan)
          IN Finish(pending.sid, st, "Handle Missing Values",
                    Ok("ok", get_df_info(st.df)))

(* ------------------ backend.py: POST /clean/outliers ------------------- *)

OutlierActions == {"cap", "remove_rows", "none"}

\* One (action, cid) pass of the loop body of api_outliers_apply: the bounds
\* are computed from the column as it is now.
outliers_apply_one(st, cols, action, cid) ==
  IF ~(1 <= cid /\ cid <= Len(cols)) THEN st
  ELSE
    LET col == cols[cid]
        c == GetCol(st.df, col)
        b == IqrBounds(c.vals)
    IN IF ~IsNumericDtype(c.dtype) THEN st
       ELSE CASE action = "cap" ->
                   AddLog(Assign(st, SetVals(st.df, col, ClipDtype(c.dtype, c.vals, b),
                                             Clip(c.vals, b))),
                          Line("cap", <<col>>))
              [] action = "remove_rows" ->
                   AddLog(Rebind(st, KeepRows(st.df, {i \in 1..Len(c.vals) :
                                                        InBounds(c.vals[i], b)})),
                          Line("remove_rows", <<col>>))
              [] OTHER -> st

outliers_apply_loop(df, plan) ==
  LET cols == ColNames(df)
      F[i \in 0..Len(plan)] ==
        IF i = 0 THEN Work(df)
        ELSE outliers_apply_one(F[i-1], cols, plan[i].action, plan[i].cid)
  IN F[Len(plan)]

api_outliers_apply ==
  /\ Handles("http", "outliers")
  /\ IF ~Stored(pending.sid) THEN Rejects
     ELSE LET st == outliers_apply_loop(_load_df(pending.sid), pending.plan)
          IN Finish(pending.sid, st, "Handle Outliers", Ok("ok", NoColumns))

(* ---------------- backend.py: POST /clean/correlation ------------------ *)

CorrActions == {"drop", "keep"}
\* CorrelationPlan.threshold = 0.90, in tenths.
DefaultThreshold == 9

\* df.select_dtypes(include=['float64', 'int64']).columns
NumericNames(df) ==
  LET keep == SelectIdx(df.cols, LAMBDA i : IsFloatOrInt64(df.cols[i].dtype))
  IN [i \in 1..Len(keep) |-> keep[i].name]
\* A check that flags both columns of a pair.
HighCorrColsBoth(df, nums, thr10) ==
  SelectIdx(nums, LAMBDA j :
     \E i \in (1..Len(nums)) \ {j} :
        CorrAbove(GetCol(df, nums[i]).vals, GetCol(df, nums[j]).vals, thr10))
\* np.tril in place of np.triu: c is flagged when a column after c correlates
\* with it above the threshold.
HighCorrColsLower(df, nums, thr10) ==
  SelectIdx(nums, LAMBDA j :
     \E i \in (j + 1)..Len(nums) :
        CorrAbove(GetCol(df, nums[i]).vals, GetCol(df, nums[j]).vals, thr10))
\* corr_matrix.where(np.triu(ones, k=1)) keeps, in the column of c, the rows
\* of the columns before c: c is flagged when one of them correlates with it
\* above the threshold.
HighCorrCols(df, nums, thr10) ==
  SelectIdx(nums, LAMBDA j :
     \E i \in 1..(j - 1) :
        CorrAbove(GetCol(df, nums[i]).vals, GetCol(df, nums[j]).vals, thr10))

api_corr ==
  /\ Handles("http", "correlation")
  /\ IF ~Stored(pending.sid) THEN Rejects
     ELSE
       LET sid == pending.sid
           df == _load_df(sid)
           nums == NumericNames(df)
           high_corr_cols == HighCorrCols(df, nums, DefaultThreshold)
           to_drop == ValidNames(ColNames(df), IdsOf(pending.plan, "drop"))
           Drops(names, message) ==
             /\ SESSION_DATA' = _save_df(SESSION_DATA, sid, DropCols(df, Range(names)))
             /\ SESSION_LOGS' = _log(SESSION_LOGS, sid, "Handle Multicollinearity",
                                     <<Line("drop", names)>>)
             /\ resp' = OkNames(message, names)
       IN IF Len(nums) < 2
          THEN /\ resp' = OkNames("not enough numeric columns", <<>>)
               /\ UNCHANGED <<SESSION_DATA, SESSION_LOGS>>
          ELSE IF pending.auto /\ high_corr_cols # <<>>
          THEN Drops(high_corr_cols, "auto-dropped")
          ELSE IF HasAction(pending.plan, "drop") /\ to_drop # <<>>
          THEN Drops(to_drop, "dropped")
          ELSE /\ resp' = OkNames("detected", high_corr_cols)
               /\ UNCHANGED <<SESSION_DATA, SESSION_LOGS>>

(* ------------------ backend.py: POST /clean/encoding ------------------- *)

EncodingActions == {"label", "one_hot", "skip"}

\* The distinct values of a column in sorted order, NaN left out.
Categories(vals) ==
  SortSeq(SetToSeqOf(Range(NonNA(vals))), CellLess)
\* The decimal digits of a whole number n >= 0.
RECURSIVE Digits(_)
Digits(n) == IF n < 10 THEN <<n>> ELSE Append(Digits(n \div 10), n % 10)
\* a < b for two sequences of digits compared as Python compares strings.
LexLess(a, b) ==
  \E k \in 1..(Len(a) + 1) :
     /\ \A j \in 1..(k - 1) : j <= Len(b) /\ a[j] = b[j]
     /\ IF k > Len(a) THEN Len(b) >= k ELSE k <= Len(b) /\ a[k] < b[k]
\* str(a) < str(b) for two cells of one column: strings in ASCII order;
\* whole numbers by their digits ("18" < "2", and "2.0" < "20.0" since
\* '.' sorts before the digits), negative ones ('-') first.
TextLess(a, b) ==
  IF a.t = "s" /\ b.t = "s" THEN StrRank(a.s) < StrRank(b.s)
  ELSE IF a.t = "n" /\ b.t = "n"
  THEN IF a.v < 0 /\ b.v < 0 THEN LexLess(Digits((-a.v) \div Unit), Digits((-b.v) \div Unit))
       ELSE IF a.v < 0 \/ b.v < 0 THEN a.v < 0
       ELSE LexLess(Digits(a.v \div Unit), Digits(b.v \div Unit))
  ELSE a.t = "n" /\ b.t = "s"
\* LabelEncoder.classes_: the distinct texts in sorted order, "nan" left out
\* (it sorts after every other text of the datasets).
Classes(vals) == SortSeq(SetToSeqOf(Range(NonNA(vals))), TextLess)
CodeIn(classes, c) ==
  IF IsNA(c) THEN Len(classes) ELSE (CHOOSE k \in 1..Len(classes) : classes[k] = c) - 1
Encoded(vals, classes) == [i \in 1..Len(vals) |-> V(CodeIn(classes, vals[i]))]
\* LabelEncoder().fit_transform(series.astype(str)): the rank of a value's
\* text among the sorted distinct texts; NaN is the text "nan", sorted last.
LabelEncode(vals) == Encoded(vals, Classes(vals))
\* The dummy columns of one column under drop_first=True: one per category
\* but the first, named <column>_<category>; a NaN row is False in all.
DummiesOf(c, cats) ==
  [k \in 1..(IF Len(cats) = 0 THEN 0 ELSE Len(cats) - 1) |->
     Col(c.name \o "_" \o CellText(cats[k + 1], c.dtype), "bool",
         [i \in 1..Len(c.vals) |-> IF c.vals[i] = cats[k + 1] THEN V(1) ELSE V(0)])]
\* The dummy columns under drop_first=False: one per category.
DummiesKeepFirst(c) ==
  [k \in 1..Len(Categories(c.vals)) |->
     Col(c.name \o "_" \o CellText(Categories(c.vals)[k], c.dtype), "bool",
         [i \in 1..Len(c.vals) |-> IF c.vals[i] = Categories(c.vals)[k] THEN V(1) ELSE V(0)])]
Dummies(c) == DummiesOf(c, Categories(c.vals))
\* pd.get_dummies(df, columns=names, drop_first=True): the other columns in
\* their order, then the dummies of each named column in the order named.
get_dummies(df, names) ==
  LET F[k \in 0..Len(names)] ==
        IF k = 0 THEN DropCols(df, Range(names)).cols
        ELSE F[k-1] \o Dummies(GetCol(df, names[k]))
  IN [df EXCEPT !.cols = F[Len(names)]]

encoding_label_loop(df, cols, ids) ==
  LET F[i \in 0..Len(ids)] ==
        IF i = 0 THEN Work(df)
        ELSE IF ~(1 <= ids[i] /\ ids[i] <= Len(cols)) THEN F[i-1]
        ELSE LET col == cols[ids[i]]
                 c == GetCol(F[i-1].df, col)
             IN AddLog(Assign(F[i-1], SetVals(F[i-1].df, col, "int64", LabelEncode(c.vals))),
                       Line("label", <<col>>))
  IN F[Len(ids)]

api_encoding_apply ==
  /\ Handles("http", "encoding")
  /\ IF ~Stored(pending.sid) THEN Rejects
     ELSE
       LET df == _load_df(pending.sid)
           cols == ColNames(df)
           st1 == encoding_label_loop(df, cols, IdsOf(pending.plan, "label"))
           oh_cols == ValidNames(cols, IdsOf(pending.plan, "one_hot"))
           st2 == IF oh_cols # <<>>
                  THEN AddLog(Rebind(st1, get_dummies(st1.df, oh_cols)),
                              Line("one_hot", oh_cols))
                  ELSE st1
       IN Finish(pending.sid, st2, "Categorical Encoding", Ok("ok", get_df_info(st2.df)))

(* ------------------ backend.py: POST /clean/scaling -------------------- *)

ScalingActions == {"standard", "minmax", "skip"}

\* The position of cell i among the cells that hold a value.
Rank(vals, i) == Cardinality({j \in 1..i : ~IsNA(vals[j])})
\* StandardScaler().fit_transform on one column: (x - mean) / std with the
\* population std, NaN left out of the fit and kept; a constant column gives 0.
ZScore(dk, n, D2) ==
  IF D2 = 0 THEN 0
  ELSE IF dk < 0 THEN -Isqrt((Unit * Unit * dk * dk * n) \div D2)
  ELSE Isqrt((Unit * Unit * dk * dk * n) \div D2)
ZScores(vals, d, D2) ==
  [i \in 1..Len(vals) |->
     IF IsNA(vals[i]) THEN NA ELSE Num(ZScore(d[Rank(vals, i)], Len(d), D2))]
ZScoresOf(vals, d) == ZScores(vals, d, SumPow(d, 2))
StandardScale(vals) == ZScoresOf(vals, Deviations(NumVals(vals)))
\* MinMaxScaler().fit_transform on one column: (x - min) / (max - min).
Rescale(vals, lo, hi) ==
  [i \in 1..Len(vals) |->
     IF IsNA(vals[i]) THEN NA
     ELSE IF hi = lo THEN Num(0)
     ELSE Num((Unit * (vals[i].v - lo)) \div (hi - lo))]
RescaleSorted(vals, xs) == IF Len(xs) = 0 THEN vals ELSE Rescale(vals, xs[1], xs[Len(xs)])
MinMaxScale(vals) == RescaleSorted(vals, SortInts(NumVals(vals)))
\* df[names] = scaler.fit_transform(df[names]): the conversion of the block
\* to floats raises on a string that is not a number, before any assignment.
Scaled(v, kind) == IF kind = "standard" THEN StandardScale(v) ELSE MinMaxScale(v)
fit_transform(df, names, kind) ==
  LET F[k \in 0..Len(names)] ==
        IF k = 0 THEN df
        ELSE SetVals(F[k-1], names[k], "float64",
                     Scaled(ToNumeric(GetCol(F[k-1], names[k]).vals), kind))
  IN F[Len(names)]
Fits(df, names) == \A k \in 1..Len(names) : CanCoerce(GetCol(df, names[k]).vals)
scale_columns(st, names, kind) ==
  IF st.err \/ names = <<>> THEN st
  ELSE IF ~Fits(st.df, names) THEN Raise(st)
  ELSE AddLog(Assign(st, fit_transform(st.df, names, kind)), Line(kind, names))

api_scaling_apply ==
  /\ Handles("http", "scaling")
  /\ IF ~Stored(pending.sid) THEN Rejects
     ELSE
       LET df == _load_df(pending.sid)
           cols == ColNames(df)
           std_cols == ValidNames(cols, IdsOf(pending.plan, "standard"))
           mm_cols == ValidNames(cols, IdsOf(pending.plan, "minmax"))
           st == scale_columns(scale_columns(Work(df), std_cols, "standard"),
                               mm_cols, "minmax")
       IN Finish(pending.sid, st, "Feature Scaling", Ok("ok", NoColumns))

(* --------------------------- tp/backend.py ----------------------------- *)

\* load_df reads the session's parquet file into a new frame: nothing the
\* handler does reaches the file before save_df.
Load(df) == [Work(df) EXCEPT !.aliased = FALSE]
\* cols[k] with Python's indexing: a negative k counts from the end, and k
\* outside -N..N-1 raises IndexError.
InIndex(cols, k) == -Len(cols) <= k /\ k < Len(cols)
PyIndex(cols, k) == IF k >= 0 THEN cols[k + 1] ELSE cols[Len(cols) + k + 1]

get_dataset_info ==
  /\ Handles("tp", "info")
  /\ UNCHANGED <<SESSION_DATA, SESSION_LOGS>>
  /\ resp' = IF Stored(pending.sid)
             THEN Ok("info", get_df_info(_load_df(pending.sid)))
             ELSE NotFound

drop_columns ==
  /\ Handles("tp", "drop")
  /\ IF ~Stored(pending.sid) THEN Rejects
     ELSE LET sid == pending.sid
              df == _load_df(sid)
              cols_to_drop == ValidNames(ColNames(df), IdsOf(pending.plan, "drop"))
              out == DropCols(df, Range(cols_to_drop))
          IN /\ resp' = Ok("Columns dropped", get_df_info(out))
             /\ IF cols_to_drop # <<>>
                THEN /\ SESSION_DATA' = _save_df(SESSION_DATA, sid, out)
                     /\ SESSION_LOGS' =
                          _log(SESSION_LOGS, sid, "Drop Columns", <<Line("drop", cols_to_drop)>>)
                ELSE UNCHANGED <<SESSION_DATA, SESSION_LOGS>>

\* The label loop of apply_encoding: col = cols[cid-1] with no range check.
tp_label_loop(df, cols, ids) ==
  LET F[i \in 0..Len(ids)] ==
        IF i = 0 THEN Load(df)
        ELSE IF F[i-1].err THEN F[i-1]
        ELSE IF ~InIndex(cols, ids[i] - 1) THEN Raise(F[i-1])     \* IndexError
        ELSE LET col == PyIndex(cols, ids[i] - 1)
                 c == GetCol(F[i-1].df, col)
             IN AddLog(Assign(F[i-1], SetVals(F[i-1].df, col, "int64", LabelEncode(c.vals))),
                       Line("label", <<col>>))
  IN F[Len(ids)]

apply_encoding ==
  /\ Handles("tp", "encoding")
  /\ IF ~Stored(pending.sid) THEN Rejects
     ELSE
       LET df == _load_df(pending.sid)
           cols == ColNames(df)
           st1 == tp_label_loop(df, cols, IdsOf(pending.plan, "label"))
           oh_cols == ValidNames(cols, IdsOf(pending.plan, "one_hot"))
           st2 == IF ~st1.err /\ oh_cols # <<>>
                  THEN AddLog(Rebind(st1, get_dummies(st1.df, oh_cols)),
                              Line("one_hot", oh_cols))
                  ELSE st1
       IN Finish(pending.sid, st2, "Categorical Encoding",
                 Ok("Encoding complete", get_df_info(st2.df)))

\* df[col].fillna(val, inplace=True) fills a Series taken from the frame:
\* the frame itself is filled when pandas hands out the frame's own data
\* (inplace), and is left alone under copy-on-write. The line is logged
\* either way.
tp_fill(st, col, dtype, vals, line, inplace) ==
  AddLog(IF inplace THEN Assign(st, SetVals(st.df, col, dtype, vals)) ELSE st, line)
\* One (action, cid) pass of the loop body of apply_missing_plan.
tp_missing_one(st, cols, action, cid, inplace) ==
  IF st.err \/ ~(1 <= cid /\ cid <= Len(cols)) THEN st
  ELSE
    LET col == cols[cid] IN
    IF ~HasCol(st.df, col) THEN Raise(st)          \* df[col]: KeyError
    ELSE
      LET c == GetCol(st.df, col)
          is_cat == IsObject(c.dtype)
          failed == action \in {"mean", "median"} /\ is_cat /\ ~CanCoerce(c.vals)
          convert == action \in {"mean", "median"} /\ is_cat /\ CanCoerce(c.vals)
          st1 == IF convert
                 THEN AddLog(Assign(st, SetVals(st.df, col, CoercedDtype(c.vals),
                                                   ToNumeric(c.vals))),
                             Line("to_numeric", <<col>>))
                 ELSE st
          c1 == GetCol(st1.df, col)
      IN IF failed THEN st                          \* except: continue
         ELSE CASE action = "mean" ->
                     tp_fill(st1, col, c1.dtype, FillNA(c1.vals, Mean(c1.vals)),
                             Line("mean", <<col>>), inplace)
                [] action = "median" ->
                     tp_fill(st1, col, c1.dtype, FillNA(c1.vals, Median(c1.vals)),
                             Line("median", <<col>>), inplace)
                [] action = "mode" ->
                     IF IsNA(Mode(c1.vals)) THEN st1
                     ELSE tp_fill(st1, col, c1.dtype, FillNA(c1.vals, Mode(c1.vals)),
                                  Line("mode", <<col>>), inplace)
                [] action = "drop_col" ->
                     AddLog(Assign(st1, DropCols(st1.df, {col})), Line("drop", <<col>>))
                [] OTHER -> st1
tp_missing_loop(df, plan, inplace) ==
  LET cols == ColNames(df)
      F[i \in 0..Len(plan)] ==
        IF i = 0 THEN Load(df)
        ELSE tp_missing_one(F[i-1], cols, plan[i].action, plan[i].cid, inplace)
  IN F[Len(plan)]
apply_missing_plan ==
  /\ Handles("tp", "missing")
  /\ IF ~Stored(pending.sid) THEN Rejects
     ELSE \E inplace \in BOOLEAN :
            LET st == tp_missing_loop(_load_df(pending.sid), pending.plan, inplace)
            IN Finish(pending.sid, st, "Handle Missing Values",
                      Ok("Missing values handled", get_df_info(st.df)))

tp_outliers_loop(df, plan) ==
  LET cols == ColNames(df)
      F[i \in 0..Len(plan)] ==
        IF i = 0 THEN Load(df)
        ELSE outliers_apply_one(F[i-1], cols, plan[i].action, plan[i].cid)
  IN F[Len(plan)]
apply_outlier_plan ==
  /\ Handles("tp", "outliers")
  /\ IF ~Stored(pending.sid) THEN Rejects
     ELSE LET st == tp_outliers_loop(_load_df(pending.sid), pending.plan)
          IN Finish(pending.sid, st, "Handle Outliers", Ok("Outliers handled", NoColumns))

\* df.select_dtypes(include=np.number).columns: the integer and float
\* columns (bool is not a np.number).
NumberNames(df) ==
  LET keep == SelectIdx(df.cols, LAMBDA i : IsFloatOrInt64(df.cols[i].dtype))
  IN [i \in 1..Len(keep) |-> keep[i].name]
\* handle_correlation: auto_drop answers first, then a plan that drops
\* something, else the columns detected.
handle_correlation ==
  /\ Handles("tp", "correlation")
  /\ IF ~Stored(pending.sid) THEN Rejects
     ELSE
       LET sid == pending.sid
           df == _load_df(sid)
           high_corr_cols == HighCorrCols(df, NumberNames(df), DefaultThreshold)
           cols_to_drop == ValidNames(ColNames(df), IdsOf(pending.plan, "drop"))
           Drops(names, step, message) ==
             /\ SESSION_DATA' = _save_df(SESSION_DATA, sid, DropCols(df, Range(names)))
             /\ SESSION_LOGS' = _log(SESSION_LOGS, sid, step, <<Line("drop", names)>>)
             /\ resp' = OkNames(message, names)
       IN IF pending.auto /\ high_corr_cols # <<>>
          THEN Drops(high_corr_cols, "Handle Correlation", "auto-dropped")
          ELSE IF pending.auto
          THEN /\ resp' = OkNames("auto-dropped", <<>>)
               /\ UNCHANGED <<SESSION_DATA, SESSION_LOGS>>
          ELSE IF cols_to_drop # <<>>
          THEN Drops(cols_to_drop, "Handle Correlation (Manual)", "dropped")
          ELSE /\ resp' = OkNames("detected", high_corr_cols)
               /\ UNCHANGED <<SESSION_DATA, SESSION_LOGS>>

apply_scaling ==
  /\ Handles("tp", "scaling")
  /\ IF ~Stored(pending.sid) THEN Rejects
     ELSE
       LET df == _load_df(pending.sid)
           cols == ColNames(df)
           std_cols == ValidNames(cols, IdsOf(pending.plan, "standard"))
           mm_cols == ValidNames(cols, IdsOf(pending.plan, "minmax"))
           st == scale_columns(scale_columns(Load(df), std_cols, "standard"),
                               mm_cols, "minmax")
       IN Finish(pending.sid, st, "Feature Scaling", Ok("Scaling complete", NoColumns))

(* ---------------------------- backend/cli.py --------------------------- *)

VARIABLES
  pc,             \* where run_cli is: the step it is about to call, the
                  \* uncovered-columns prompt of a step, "done", "crashed"
  df,             \* run_cli's df
  info,           \* run_cli's info (column descriptors)
  notebook_log,   \* run_cli's notebook_log
  fr,             \* the locals of the step function that is running
  typed           \* what the user typed at the prompt, NoInput when nothing

cliVars == <<pc, df, info, notebook_log, fr, typed>>

VARIABLES
  threads,           \* the clean requests in flight, each with the position and
                     \* the locals of its handler
  base,              \* the frame and the log as uploaded (history)
  _DATASET_CONTEXT,  \* ai_utils.py _DATASET_CONTEXT: session id -> context
  advice             \* what the last call of validate_step returned

sideVars == <<threads, base, _DATASET_CONTEXT, advice>>
\* What is off beside the program that runs.
offVars == <<cliVars, sideVars>>

EmptyFrame == [nrows |-> 0, cols |-> <<>>]
NoFrame ==
  [updated_df |-> EmptyFrame, updated_info |-> <<>>, log_code |-> <<>>,
   covered_ids |-> {}, uncovered_ids |-> {}, rounds |-> 0, err |-> FALSE]
\* An answer: approve is the y/n to "Do you approve", plan the plan typed
\* after n, ids the ids typed at the drop prompt, choice the 1/2/3 of the
\* uncovered-columns prompt, convert the y/n to "Attempt to convert".
Input(kind, approve, plan, ids, choice, convert) ==
  [kind |-> kind, approve |-> approve, plan |-> plan, ids |-> ids,
   choice |-> choice, convert |-> convert]
NoInput == Input("none", FALSE, <<>>, {}, 0, FALSE)

\* df_info[df_info["id"] == col_id][field].iloc[0]
HasId(inf, id) == \E i \in 1..Len(inf) : inf[i].id = id
RowOfId(inf, id) == inf[CHOOSE i \in 1..Len(inf) : inf[i].id = id]
\* df_info[df_info["column_name"].isin(names)]["id"]
IdsOfNames(inf, names) == {inf[i].id : i \in {j \in 1..Len(inf) : inf[j].column_name \in names}}
\* The ids left as they are.
RenumberSkipped(inf) == inf
\* info["id"] = range(1, len(info) + 1)
Renumber(inf) == [i \in 1..Len(inf) |-> [inf[i] EXCEPT !.id = i]]
\* A plan built with setdefault from (id, action) pairs: the actions in the
\* order they first appear, the ids of each in ascending order.
GroupByAction(pairs) ==
  LET first == SelectIdx(pairs, LAMBDA i : \A j \in 1..(i - 1) : pairs[j].action # pairs[i].action)
      S == {Entry(pairs[i].action, pairs[i].cid) : i \in 1..Len(pairs)}
  IN PlanSeq([k \in 1..Len(first) |-> first[k].action], S)
\* The step function returns: run_cli takes its results and goes on.
Returns(newdf, newinfo, step, log_code) ==
  /\ pc' = "done"
  /\ df' = newdf
  /\ info' = newinfo
  /\ notebook_log' = IF log_code # <<>>
                     THEN Append(notebook_log, [step |-> step, code |-> log_code])
                     ELSE notebook_log
  /\ fr' = NoFrame
\* An exception leaves the step function and run_cli: the program ends.
Crashes ==
  /\ pc' = "crashed"
  /\ fr' = NoFrame
  /\ UNCHANGED <<df, info, notebook_log>>
Idle == UNCHANGED <<httpVars, sideVars>>

(* ------------------- column_ops.py: drop_columns_by_id ----------------- *)

\* The user types ids at "Enter IDs to drop" ('none' is no id).
TypeDropIds ==
  /\ prog = "cli" /\ pc = "drop" /\ typed = NoInput /\ Len(info) > 0
  /\ \E ids \in SubsetsUpTo(Ids, MaxPlanLen) :
        typed' = Input("drop", FALSE, <<>>, ids, 0, FALSE)
  /\ UNCHANGED <<pc, df, info, notebook_log, fr>>
  /\ Idle

\* drop_columns_by_id, and the refresh of info in run_cli when the shape
\* changed.
drop_columns_by_id ==
  /\ prog = "cli" /\ pc = "drop"
  /\ Idle
  /\ typed' = NoInput
  /\ IF Len(info) = 0
     THEN typed = NoInput /\ Returns(df, info, "Drop Columns", <<>>)
     ELSE /\ typed.kind = "drop"
          /\ LET valid_ids == {i \in typed.ids : 1 <= i /\ i <= Len(info)}
                 keep == SelectIdx(info, LAMBDA i : info[i].id \in valid_ids)
                 columns_to_drop == [i \in 1..Len(keep) |-> keep[i].column_name]
                 df_updated == DropCols(df, Range(columns_to_drop))
             IN IF valid_ids = {}
                THEN Returns(df, info, "Drop Columns", <<>>)
                ELSE Returns(df_updated,
                             IF Len(df_updated.cols) # Len(info)
                             THEN get_df_info(df_updated) ELSE info,
                             "Drop Columns", <<Line("drop", columns_to_drop)>>)

(* ---------------- missing_values.py: handle_missing_values ------------- *)

MissingOrder == <<"mean", "median", "mode", "drop_col">>

\* The ids of a table of descriptors.
IdSet(rows) == {rows[i].id : i \in 1..Len(rows)}
\* df_info[df_info["percentage_missing"] > 0]
missing_cols(inf) == SelectIdx(inf, LAMBDA i : inf[i].percentage_missing > 0)
all_missing_ids(inf) == IdSet(missing_cols(inf))

\* generate_global_suggestion: one (id, action) per row of missing_cols.
suggest_missing(d, rows) ==
  [i \in 1..Len(rows) |->
     Entry(IF rows[i].percentage_missing > 5000 THEN "drop_col"
           ELSE IF IsObject(rows[i].dtype) THEN "mode"
           ELSE IF SkewAbove1(GetCol(d, rows[i].column_name).vals) THEN "median"
           ELSE "mean",
           rows[i].id)]
generate_global_suggestion(d, inf) == suggest_missing(d, missing_cols(inf))
\* global_suggestion.get(col_id, fallback)
SuggestedFor(sug, id, fallback) ==
  IF \E i \in 1..Len(sug) : sug[i].cid = id
  THEN sug[CHOOSE i \in 1..Len(sug) : sug[i].cid = id].action
  ELSE fallback
\* temp_plan: the suggestion of each uncovered id, grouped with setdefault.
SuggestionSeq(sug, ids, fallback) ==
  [i \in 1..Len(ids) |-> Entry(SuggestedFor(sug, ids[i], fallback), ids[i])]
SuggestionPlan(sug, ids, fallback) == GroupByAction(SuggestionSeq(sug, SetToSeq(ids), fallback))

\* The locals of a step function at its first plan application.
Frame(d, inf, all_ids, user_plan) ==
  [NoFrame EXCEPT !.updated_df = d, !.updated_info = inf,
                  !.covered_ids = AllIds(user_plan),
                  !.uncovered_ids = all_ids \ AllIds(user_plan)]
\* The state of one apply_actions call: current_df is updated_df itself;
\* current_info is updated_info until a drop_col rebinds the local name to a
\* filtered copy, which the caller never sees.
Acting(f) ==
  [df |-> f.updated_df, info |-> f.updated_info, outer |-> f.updated_info,
   rebound |-> FALSE, log |-> f.log_code, err |-> FALSE]
WithDtype(inf, col_name, dtype) ==
  [i \in 1..Len(inf) |->
     IF inf[i].column_name = col_name THEN [inf[i] EXCEPT !.dtype = dtype] ELSE inf[i]]
SetDtype(s, col_name, dtype) ==
  [s EXCEPT !.info = WithDtype(s.info, col_name, dtype),
            !.outer = IF s.rebound THEN s.outer ELSE WithDtype(s.outer, col_name, dtype)]
\* current_df[col_name] = pd.to_numeric(current_df[col_name], errors="raise")
coerce(s, col_name, v) ==
  [SetDtype(s, col_name, CoercedDtype(v))
     EXCEPT !.df = SetVals(s.df, col_name, CoercedDtype(v), ToNumeric(v)),
            !.log = Append(s.log, Line("to_numeric", <<col_name>>))]
\* A fill with val: nothing when val is NaN (the column has no value).
fill(s, c, val, op) ==
  IF IsNA(val) THEN s
  ELSE [s EXCEPT !.df = SetVals(s.df, c.name, c.dtype, FillNA(c.vals, val)),
                 !.log = Append(s.log, Line(op, <<c.name>>))]
\* The action on the column c of current_df.
apply_to_col(s, action, col_id, c) ==
  CASE action = "mean" -> fill(s, c, Mean(c.vals), "mean")
    [] action = "median" -> fill(s, c, Median(c.vals), "median")
    [] action = "mode" -> fill(s, c, Mode(c.vals), "mode")
    [] action = "drop_col" ->
         [s EXCEPT !.df = DropCols(s.df, {c.name}),
                   !.info = SelectIdx(s.info, LAMBDA i : s.info[i].id # col_id),
                   !.rebound = TRUE,
                   !.log = Append(s.log, Line("drop", <<c.name>>))]
    [] OTHER -> s
\* current_df[col_name] of a column that is gone: KeyError.
apply_to_name(s, action, col_id, col_name) ==
  IF ~HasCol(s.df, col_name) THEN [s EXCEPT !.err = TRUE]
  ELSE apply_to_col(s, action, col_id, GetCol(s.df, col_name))
\* The body of the inner loop for the descriptor row of col_id: a mean or a
\* median of a categorical column asks for a conversion first, and skips the
\* column when it is declined or fails.
apply_to_row(s, action, col_id, convert, row) ==
  IF action \in {"mean", "median"} /\ IsObject(row.dtype)
  THEN IF convert /\ HasCol(s.df, row.column_name)
                  /\ CanCoerce(GetCol(s.df, row.column_name).vals)
       THEN apply_to_name(coerce(s, row.column_name, GetCol(s.df, row.column_name).vals),
                          action, col_id, row.column_name)
       ELSE s                                                         \* continue
  ELSE apply_to_name(s, action, col_id, row.column_name)
\* One pass of the inner loop of apply_actions.
apply_one(s, action, col_id, convert) ==
  IF s.err THEN s
  ELSE IF ~HasId(s.info, col_id) THEN [s EXCEPT !.err = TRUE]        \* .iloc[0]: IndexError
  ELSE apply_to_row(s, action, col_id, convert, RowOfId(s.info, col_id))
\* What the caller sees of an apply_actions call.
Settle(f, s) ==
  [f EXCEPT !.updated_df = s.df, !.updated_info = s.outer, !.log_code = s.log, !.err = s.err]
\* apply_actions(plan, target_ids, updated_df, updated_info)
apply_actions(f, plan, target_ids, convert) ==
  LET F[i \in 0..Len(plan)] ==
        IF i = 0 THEN Acting(f)
        ELSE IF plan[i].cid \in target_ids
        THEN apply_one(F[i-1], plan[i].action, plan[i].cid, convert)
        ELSE F[i-1]
  IN Settle(f, F[Len(plan)])

\* Lines 225-243: the descriptors of the columns still present, renumbered,
\* with the new missing percentages; one log entry for the step.
present_info(f) ==
  SelectIdx(f.updated_info, LAMBDA i : HasCol(f.updated_df, f.updated_info[i].column_name))
fresh_missing(d, present) ==
  [i \in 1..Len(present) |->
     [present[i] EXCEPT !.percentage_missing =
        Pct(CountNA(GetCol(d, present[i].column_name).vals), d.nrows)]]
missing_return(f) ==
  Returns(f.updated_df, Renumber(fresh_missing(f.updated_df, present_info(f))),
          "Handle Missing Values", f.log_code)

\* The user answers "Do you approve this global suggestion?": y, or n and a
\* plan; convert is the answer to every "Attempt to convert to numeric?".
TypePlan(stage, order) ==
  /\ prog = "cli" /\ pc = stage /\ typed = NoInput
  /\ \/ typed' = Input("plan", TRUE, <<>>, {}, 0, FALSE)
     \/ \E plan \in TypedPlans(order, MaxPlanLen) :
          \E convert \in (IF HasAction(plan, "mean") \/ HasAction(plan, "median")
                          THEN BOOLEAN ELSE {FALSE}) :
             typed' = Input("plan", FALSE, plan, {}, 0, convert)
  /\ UNCHANGED <<pc, df, info, notebook_log, fr>>
  /\ Idle
\* The user answers the uncovered-columns prompt: 1 and a supplementary
\* plan, 2 (apply the suggestions) or 3 (leave as is).
TypeChoice(stage, order) ==
  /\ prog = "cli" /\ pc = stage /\ typed = NoInput
  /\ \/ \E choice \in {2, 3} : typed' = Input("choice", FALSE, <<>>, {}, choice, FALSE)
     \/ /\ fr.rounds < MaxRounds
        /\ \E plan \in TypedPlans(order, MaxExtraLen) :
             \E convert \in (IF HasAction(plan, "mean") \/ HasAction(plan, "median")
                             THEN BOOLEAN ELSE {FALSE}) :
                typed' = Input("choice", FALSE, plan, {}, 1, convert)
  /\ UNCHANGED <<pc, df, info, notebook_log, fr>>
  /\ Idle

TypeMissingPlan ==
  pc = "missing" /\ all_missing_ids(info) # {} /\ TypePlan("missing", MissingOrder)
TypeMissingChoice == TypeChoice("missing_choice", MissingOrder)

\* The step function stops at the uncovered-columns prompt with its locals f.
Prompts(stage, f) ==
  /\ pc' = stage
  /\ fr' = f
  /\ UNCHANGED <<df, info, notebook_log>>
\* After the first apply_actions (lines 177-187): an exception ends the
\* program; uncovered ids open the loop; else the function returns.
missing_applied(f) ==
  IF f.err THEN Crashes
  ELSE IF f.uncovered_ids # {} THEN Prompts("missing_choice", f)
  ELSE missing_return(f)
missing_first(all_ids, user_plan, convert) ==
  missing_applied(apply_actions(Frame(df, info, all_ids, user_plan), user_plan, all_ids, convert))
\* handle_missing_values up to the uncovered-columns loop (lines 74-187).
handle_missing_values ==
  /\ prog = "cli" /\ pc = "missing"
  /\ Idle
  /\ typed' = NoInput
  /\ IF all_missing_ids(info) = {}
     THEN typed = NoInput /\ Returns(df, info, "Handle Missing Values", <<>>)
     ELSE /\ typed.kind = "plan"
          /\ missing_first(all_missing_ids(info),
                           IF typed.approve
                           THEN GroupByAction(generate_global_suggestion(df, info))
                           ELSE typed.plan,
                           typed.convert)

\* remaining computed from the ids of this round's plan alone.
missing_supplementThisRound(f, covered_ids) ==
  IF f.err THEN Crashes
  ELSE IF fr.uncovered_ids \ AllIds(typed.plan) = {} THEN missing_return(f)
  ELSE /\ fr' = [f EXCEPT !.covered_ids = covered_ids, !.rounds = fr.rounds + 1]
       /\ UNCHANGED <<pc, df, info, notebook_log>>
\* Choice 1 (lines 198-207): the supplementary plan is applied to the
\* uncovered ids; the loop goes on while covered_ids misses one of them.
missing_supplement(f, covered_ids) ==
  IF f.err THEN Crashes
  ELSE IF fr.uncovered_ids \ covered_ids = {} THEN missing_return(f)
  ELSE /\ fr' = [f EXCEPT !.covered_ids = covered_ids, !.rounds = fr.rounds + 1]
       /\ UNCHANGED <<pc, df, info, notebook_log>>
\* Choice 2 (lines 209-216): the suggestions of the uncovered ids, then break.
missing_suggested(f) == IF f.err THEN Crashes ELSE missing_return(f)
\* One turn of the while loop of handle_missing_values (lines 189-223).
missing_uncovered_loop ==
  /\ prog = "cli" /\ pc = "missing_choice" /\ typed.kind = "choice"
  /\ Idle
  /\ typed' = NoInput
  /\ CASE typed.choice = 1 ->
            missing_supplement(apply_actions(fr, typed.plan, fr.uncovered_ids, typed.convert),
                               fr.covered_ids \cup AllIds(typed.plan))
       [] typed.choice = 2 ->
            missing_suggested(
               apply_actions(fr, SuggestionPlan(generate_global_suggestion(df, info),
                                                fr.uncovered_ids, "median"),
                             fr.uncovered_ids, FALSE))
       [] OTHER -> missing_return(fr)
(* ---------------- outliers.py: detect_and_handle_outliers -------------- *)

OutlierOrder == <<"cap", "remove_rows", "none">>

\* One row of outlier_summary: the percentage of the values outside the
\* bounds b, and the bounds rounded to two decimals.
summary_row(name, vals, b, nrows) ==
  [column_name |-> name, outliers_pct |-> Pct(CountOutliers(vals, b), nrows),
   bounds |-> Round2(b)]
summary_rows(d, hit) ==
  [i \in 1..Len(hit) |->
     summary_row(hit[i], GetCol(d, hit[i]).vals, IqrBounds(GetCol(d, hit[i]).vals), d.nrows)]
\* if outliers_count > 0
has_outliers(vals) == CountOutliers(vals, IqrBounds(vals)) > 0
with_outliers(d, nums) == SelectIdx(nums, LAMBDA i : has_outliers(GetCol(d, nums[i]).vals))
\* outlier_summary: the float64/int64 columns with a value outside the IQR
\* bounds.
outlier_summary(d) == summary_rows(d, with_outliers(d, NumericNames(d)))
SummaryOf(summary, name) ==
  summary[CHOOSE i \in 1..Len(summary) : summary[i].column_name = name]
merge_rows(rows, summary) ==
  [i \in 1..Len(rows) |->
     [id |-> rows[i].id, column_name |-> rows[i].column_name,
      outliers_pct |-> SummaryOf(summary, rows[i].column_name).outliers_pct,
      bounds |-> SummaryOf(summary, rows[i].column_name).bounds]]
\* df_info.merge(outlier_df, on="column_name", how="inner")
merge_summary(inf, summary) ==
  merge_rows(SelectIdx(inf, LAMBDA i :
                \E k \in 1..Len(summary) : summary[k].column_name = inf[i].column_name),
             summary)
\* outlier_cols_info: the descriptors of these columns merged with the
\* summary, sorted by percentage, largest first.
outlier_cols_info(d, inf) ==
  SortSeq(merge_summary(inf, outlier_summary(d)), LAMBDA a, b : a.outliers_pct > b.outliers_pct)
all_outlier_ids(d, inf) == IdSet(outlier_cols_info(d, inf))
\* global_suggestion of detect_and_handle_outliers: remove_rows above 10 %,
\* cap otherwise (with or without 'rain' in the name).
outlier_suggestion(rows) ==
  [i \in 1..Len(rows) |->
     Entry(IF rows[i].outliers_pct > 1000 THEN "remove_rows" ELSE "cap", rows[i].id)]

\* The five lines logged for one treated column: a comment, Q1, Q3, IQR and
\* the operation.
iqr_lines(op, name) ==
  <<Line("comment", <<name>>), Line("Q1", <<name>>), Line("Q3", <<name>>), Line("IQR", <<>>),
    Line(op, <<name>>)>>
\* One pass of the inner loop of apply_outlier_logic on the column c of
\* current_df, with the bounds b of its outlier_cols_info row.
outlier_action(s, action, c, b) ==
  CASE action = "cap" ->
         [s EXCEPT !.updated_df = SetVals(s.updated_df, c.name,
                                          ClipDtype(c.dtype, c.vals, b), Clip(c.vals, b)),
                   !.log_code = s.log_code \o iqr_lines("cap", c.name)]
    [] action = "remove_rows" ->
         [s EXCEPT !.updated_df = KeepRows(s.updated_df,
                                           {i \in 1..Len(c.vals) : InBounds(c.vals[i], b)}),
                   !.log_code = s.log_code \o iqr_lines("remove_rows", c.name)]
    [] OTHER -> s
\* apply_outlier_logic(plan, target_ids, current_df): the names come from
\* updated_info, the bounds from outlier_cols_info.
apply_outlier_logic(f, rows, plan, target_ids) ==
  LET F[i \in 0..Len(plan)] ==
        IF i = 0 THEN f
        ELSE IF plan[i].cid \in target_ids
        THEN outlier_action(F[i-1], plan[i].action,
                            GetCol(F[i-1].updated_df,
                                   RowOfId(f.updated_info, plan[i].cid).column_name),
                            RowOfId(rows, plan[i].cid).bounds)
        ELSE F[i-1]
  IN F[Len(plan)]

\* Lines 234-240: fresh descriptors, one log entry for the step.
outliers_return(f) ==
  Returns(f.updated_df, get_df_info(f.updated_df), "Handle Outliers", f.log_code)

TypeOutlierPlan ==
  pc = "outliers" /\ all_outlier_ids(df, info) # {} /\ TypePlan("outliers", OutlierOrder)
TypeOutlierChoice == TypeChoice("outliers_choice", OutlierOrder)

\* After the first apply_outlier_logic (lines 192-200).
outliers_applied(f) ==
  IF f.uncovered_ids # {} THEN Prompts("outliers_choice", f) ELSE outliers_return(f)
outliers_first(rows, user_plan) ==
  outliers_applied(apply_outlier_logic(Frame(df, info, IdSet(rows), user_plan), rows,
                                       user_plan, IdSet(rows)))
outliers_detected(rows) ==
  IF IdSet(rows) = {}
  THEN typed = NoInput /\ Returns(df, info, "Handle Outliers", <<>>)
  ELSE /\ typed.kind = "plan"
       /\ outliers_first(rows, IF typed.approve THEN GroupByAction(outlier_suggestion(rows))
                               ELSE typed.plan)
\* detect_and_handle_outliers up to the uncovered-columns loop (lines 53-200).
detect_and_handle_outliers ==
  /\ prog = "cli" /\ pc = "outliers"
  /\ Idle
  /\ typed' = NoInput
  /\ outliers_detected(outlier_cols_info(df, info))

\* The choices of the uncovered-columns prompt, with the outlier_cols_info
\* computed at the start of the function.
outliers_choice(rows) ==
  CASE typed.choice = 1 ->
         outliers_return(apply_outlier_logic(fr, rows, typed.plan, fr.uncovered_ids))
    [] typed.choice = 2 ->
         outliers_return(apply_outlier_logic(
            fr, rows, SuggestionPlan(outlier_suggestion(rows), fr.uncovered_ids, "cap"),
            fr.uncovered_ids))
    [] OTHER -> outliers_return(fr)
\* The while loop of detect_and_handle_outliers (lines 202-232): every
\* valid choice breaks.
outliers_uncovered_loop ==
  /\ prog = "cli" /\ pc = "outliers_choice" /\ typed.kind = "choice"
  /\ Idle
  /\ typed' = NoInput
  /\ outliers_choice(outlier_cols_info(df, info))

(* ------------- correlation_utils.py: handle_high_correlation ----------- *)

CorrOrder == <<"drop", "keep">>

\* cols_with_issues["id"]: the ids of the flagged columns.
issue_ids(d, inf, nums, thr10) ==
  IF Len(nums) < 2 THEN {} ELSE IdsOfNames(inf, Range(HighCorrCols(d, nums, thr10)))
all_issue_ids(d, inf, thr10) == issue_ids(d, inf, NumericNames(d), thr10)

\* One drop: nothing when the column is no longer in updated_df; else
\* updated_info loses the row of the id.
drop_one(s, id, col_name) ==
  IF ~HasCol(s.updated_df, col_name) THEN s
  ELSE [s EXCEPT !.updated_df = DropCols(s.updated_df, {col_name}),
                 !.updated_info = SelectIdx(s.updated_info,
                                            LAMBDA k : s.updated_info[k].id # id),
                 !.log_code = Append(s.log_code, Line("drop", <<col_name>>))]
drop_each(f, inf, seq) ==
  LET F[i \in 0..Len(seq)] ==
        IF i = 0 THEN f ELSE drop_one(F[i-1], seq[i], RowOfId(inf, seq[i]).column_name)
  IN F[Len(seq)]
\* The drops of one pass: each id in ids, in ascending order.
drop_correlated(f, inf, ids) == drop_each(f, inf, SetToSeq(ids))

\* Lines 189-197: the remaining descriptors renumbered, one log entry.
correlation_return(f) ==
  Returns(f.updated_df, Renumber(f.updated_info), "Handle Multicollinearity", f.log_code)

TypeCorrelationPlan ==
  /\ pc = "correlation" /\ all_issue_ids(df, info, DefaultThreshold) # {}
  /\ TypePlan("correlation", CorrOrder)
TypeCorrelationChoice == TypeChoice("correlation_choice", CorrOrder)

\* After the drops of the first plan (lines 130-142).
correlation_applied(f) ==
  IF f.uncovered_ids # {} THEN Prompts("correlation_choice", f) ELSE correlation_return(f)
correlation_first(issues, user_plan) ==
  correlation_applied(drop_correlated(Frame(df, info, issues, user_plan), info,
                                      {c \in issues : Entry("drop", c) \in Range(user_plan)}))
correlation_detected(issues) ==
  IF issues = {}
  THEN typed = NoInput /\ Returns(df, info, "Handle Multicollinearity", <<>>)
  ELSE /\ typed.kind = "plan"
       /\ correlation_first(issues,
                            IF typed.approve
                            THEN PlanSeq(CorrOrder, {Entry("drop", c) : c \in issues})
                            ELSE typed.plan)
\* handle_high_correlation up to the uncovered-columns loop (lines 49-142).
handle_high_correlation ==
  /\ prog = "cli" /\ pc = "correlation"
  /\ Idle
  /\ typed' = NoInput
  /\ correlation_detected(all_issue_ids(df, info, DefaultThreshold))

\* The while loop of handle_high_correlation (lines 144-187): every valid
\* choice breaks.
correlation_uncovered_loop ==
  /\ prog = "cli" /\ pc = "correlation_choice" /\ typed.kind = "choice"
  /\ Idle
  /\ typed' = NoInput
  /\ CASE typed.choice = 1 ->
            correlation_return(drop_correlated(
               fr, info, {c \in fr.uncovered_ids : Entry("drop", c) \in Range(typed.plan)}))
       [] typed.choice = 2 -> correlation_return(drop_correlated(fr, info, fr.uncovered_ids))
       [] OTHER -> correlation_return(fr)

(* ----------- encoding_utils.py: handle_categorical_encoding ------------ *)

\* The dict literal of user_plan.
EncodingOrder == <<"one_hot", "label", "skip">>

\* df.select_dtypes(include=["object", "category"]).columns
cat_cols(d) == SelectIdx(ColNames(d), LAMBDA i : IsObject(d.cols[i].dtype))
\* cat_info: the descriptors of the categorical columns.
cat_info(d, inf) == SelectIdx(inf, LAMBDA i : inf[i].column_name \in Range(cat_cols(d)))
\* global_suggestion: one_hot up to ten distinct values, label above.
encoding_suggestion(d, rows) ==
  [i \in 1..Len(rows) |->
     Entry(IF NUnique(GetCol(d, rows[i].column_name).vals) <= 10 THEN "one_hot" ELSE "label",
           rows[i].id)]
\* [cid for cid in user_plan[action] if cid in ids], a set in ascending order.
SelectedIds(plan, action, ids) == SetToSeq(Range(IdsOf(plan, action)) \cap ids)
NamesOfIds(inf, seq) == [i \in 1..Len(seq) |-> RowOfId(inf, seq[i]).column_name]

\* Lines 81-87: one column label-encoded in updated_df, two lines logged.
label_one(s, col_name) ==
  [s EXCEPT !.updated_df = SetVals(s.updated_df, col_name, "int64",
                                   LabelEncode(GetCol(s.updated_df, col_name).vals)),
            !.log_code = s.log_code \o <<Line("LabelEncoder", <<>>), Line("label", <<col_name>>)>>]
label_each(f, names) ==
  LET F[i \in 0..Len(names)] == IF i = 0 THEN f ELSE label_one(F[i-1], names[i])
  IN F[Len(names)]
\* Lines 92-95: the one-hot expansion of cols_to_dummy.
one_hot_all(s, cols_to_dummy) ==
  IF cols_to_dummy = <<>> THEN s
  ELSE [s EXCEPT !.updated_df = get_dummies(s.updated_df, cols_to_dummy),
                 !.log_code = Append(s.log_code, Line("one_hot", cols_to_dummy))]
\* Lines 97-101: fresh descriptors, one log entry for the step.
encoding_return(f) ==
  Returns(f.updated_df, get_df_info(f.updated_df), "Categorical Encoding", f.log_code)
encoding_apply(rows, user_plan) ==
  encoding_return(
     one_hot_all(label_each(Frame(df, info, IdSet(rows), user_plan),
                            NamesOfIds(info, SelectedIds(user_plan, "label", IdSet(rows)))),
                 NamesOfIds(info, SelectedIds(user_plan, "one_hot", IdSet(rows)))))
encoding_detected(rows) ==
  IF Len(cat_cols(df)) = 0
  THEN typed = NoInput /\ Returns(df, info, "Categorical Encoding", <<>>)
  ELSE /\ typed.kind = "plan"
       /\ encoding_apply(rows, IF typed.approve
                               THEN PlanSeq(EncodingOrder, Range(encoding_suggestion(df, rows)))
                               ELSE typed.plan)

TypeEncodingPlan ==
  pc = "encoding" /\ Len(cat_cols(df)) > 0 /\ TypePlan("encoding", EncodingOrder)
handle_categorical_encoding ==
  /\ prog = "cli" /\ pc = "encoding"
  /\ Idle
  /\ typed' = NoInput
  /\ encoding_detected(cat_info(df, info))

(* -------------- scaling_utils.py: handle_feature_scaling --------------- *)

\* The dict literal of user_plan.
ScalingOrder == <<"standard", "minmax", "skip">>

\* The float64/int64/int32 columns with more than two distinct values.
numeric_cols(d) ==
  SelectIdx(ColNames(d), LAMBDA i : /\ d.cols[i].dtype \in {"float64", "int64", "int32"}
                                    /\ NUnique(d.cols[i].vals) > 2)
scale_info(d, inf) == SelectIdx(inf, LAMBDA i : inf[i].column_name \in Range(numeric_cols(d)))
\* global_suggestion: standard when abs(skew) < 1, minmax otherwise.
scaling_suggestion(d, rows) ==
  [i \in 1..Len(rows) |->
     Entry(IF SkewBelow1(GetCol(d, rows[i].column_name).vals) THEN "standard" ELSE "minmax",
           rows[i].id)]
\* Lines 77-93: one scaler fitted on the columns of the ids, two lines logged.
scale_block(s, names, kind, scaler) ==
  IF names = <<>> THEN s
  ELSE [s EXCEPT !.updated_df = fit_transform(s.updated_df, names, kind),
                 !.log_code = s.log_code \o <<Line(scaler, <<>>), Line(kind, names)>>]
\* Lines 95-98: one log entry for the step; df_info is returned as it came.
scaling_return(f) == Returns(f.updated_df, info, "Feature Scaling", f.log_code)
scaling_apply(rows, user_plan) ==
  scaling_return(
     scale_block(scale_block(Frame(df, info, IdSet(rows), user_plan),
                             NamesOfIds(info, SelectedIds(user_plan, "standard", IdSet(rows))),
                             "standard", "StandardScaler"),
                 NamesOfIds(info, SelectedIds(user_plan, "minmax", IdSet(rows))),
                 "minmax", "MinMaxScaler"))
scaling_detected(rows) ==
  IF Len(numeric_cols(df)) = 0
  THEN typed = NoInput /\ Returns(df, info, "Feature Scaling", <<>>)
  ELSE /\ typed.kind = "plan"
       /\ scaling_apply(rows, IF typed.approve
                              THEN PlanSeq(ScalingOrder, Range(scaling_suggestion(df, rows)))
                              ELSE typed.plan)

TypeScalingPlan ==
  pc = "scaling" /\ Len(numeric_cols(df)) > 0 /\ TypePlan("scaling", ScalingOrder)
handle_feature_scaling ==
  /\ prog = "cli" /\ pc = "scaling"
  /\ Idle
  /\ typed' = NoInput
  /\ scaling_detected(scale_info(df, info))

(* ------------------- backend.py: GET /suggestions/... ------------------ *)

\* The body of a suggestion endpoint: one (column id, suggested action) per
\* key of the dict, in insertion order.
OkSuggestions(sug) ==
  [status |-> 200, message |-> "suggestions", columns |-> NoColumns, names |-> <<>>,
   suggestions |-> sug]
BadRequest ==
  [status |-> 400, message |-> "Bad Request", columns |-> NoColumns, names |-> <<>>]
\* A handler that logs its request before it reads.
ReadsLogging(p, op, body) ==
  /\ Handles(p, op)
  /\ UNCHANGED SESSION_DATA
  /\ SESSION_LOGS' = _log(SESSION_LOGS, pending.sid, "Suggestions", <<Line(op, <<>>)>>)
  /\ resp' = IF Stored(pending.sid) THEN body ELSE NotFound
\* A handler that only reads: after _load_df it answers with the body.
Reads(p, op, body) ==
  /\ Handles(p, op)
  /\ UNCHANGED <<SESSION_DATA, SESSION_LOGS>>
  /\ resp' = IF Stored(pending.sid) THEN body ELSE NotFound

\* api_missing_suggestions: the rows of get_df_info with percentage_missing
\* > 0, each with the action of the rule of lines 227-233.
missing_suggestions(d) == suggest_missing(d, missing_cols(get_df_info(d)))
api_missing_suggestions ==
  Reads("http", "missing_suggestions", OkSuggestions(missing_suggestions(_load_df(pending.sid))))

\* pct > 10 for pct = cnt / len(df) * 100, not rounded.
PctAbove10(cnt, n) == 10 * cnt > n
\* The loop of api_outliers_suggestions over the columns nums: a column with
\* cnt > 0 gets remove_rows above 10 % and cap otherwise, under its position.
outliers_suggestions(d, nums) ==
  LET hit == with_outliers(d, nums)
  IN [i \in 1..Len(hit) |->
        Entry(IF PctAbove10(CountOutliers(GetCol(d, hit[i]).vals,
                                          IqrBounds(GetCol(d, hit[i]).vals)), d.nrows)
              THEN "remove_rows" ELSE "cap",
              ColIdx(d, hit[i]))]
api_outliers_suggestions ==
  Reads("http", "outliers_suggestions",
        OkSuggestions(outliers_suggestions(_load_df(pending.sid),
                                           NumericNames(_load_df(pending.sid)))))

\* api_encoding_suggestions: one_hot up to ten distinct values, label above.
encoding_suggestions(d) ==
  [i \in 1..Len(cat_cols(d)) |->
     Entry(IF NUnique(GetCol(d, cat_cols(d)[i]).vals) <= 10 THEN "one_hot" ELSE "label",
           ColIdx(d, cat_cols(d)[i]))]
api_encoding_suggestions ==
  Reads("http", "encoding_suggestions", OkSuggestions(encoding_suggestions(_load_df(pending.sid))))

\* The loop of api_scaling_suggestions over the columns nums: a column of at
\* most two distinct values is skipped; standard when abs(skew) < 1.
scaling_suggestions(d, nums) ==
  LET wide == SelectIdx(nums, LAMBDA i : NUnique(GetCol(d, nums[i]).vals) > 2)
  IN [i \in 1..Len(wide) |->
        Entry(IF SkewBelow1(GetCol(d, wide[i]).vals) THEN "standard" ELSE "minmax",
              ColIdx(d, wide[i]))]
api_scaling_suggestions ==
  Reads("http", "scaling_suggestions",
        OkSuggestions(scaling_suggestions(_load_df(pending.sid), numeric_cols(_load_df(pending.sid)))))

(* --------------------- backend.py: GET /analysis/... ------------------- *)

\* df[nums].describe() raises ValueError for a frame without columns.
Describes(nums) == Len(nums) > 0
\* A handler that logs the step before it loads the frame.
api_univariateLogFirst ==
  /\ Handles("http", "univariate")
  /\ UNCHANGED SESSION_DATA
  /\ SESSION_LOGS' = _log(SESSION_LOGS, pending.sid, "Univariate Analysis",
                          <<Line("plots", <<>>)>>)
  /\ resp' = IF ~Stored(pending.sid) THEN NotFound
             ELSE IF ~Describes(NumericNames(_load_df(pending.sid))) THEN ServerError
             ELSE Ok("statistics", NoColumns)
\* api_univariate: the statistics are computed, then the step is logged.
api_univariate ==
  /\ Handles("http", "univariate")
  /\ UNCHANGED SESSION_DATA
  /\ IF ~Stored(pending.sid) THEN Rejects
     ELSE IF ~Describes(NumericNames(_load_df(pending.sid)))
     THEN resp' = ServerError /\ UNCHANGED SESSION_LOGS
     ELSE /\ SESSION_LOGS' = _log(SESSION_LOGS, pending.sid, "Univariate Analysis",
                                  <<Line("plots", <<>>)>>)
          /\ resp' = Ok("statistics", NoColumns)
api_bivariate ==
  /\ Handles("http", "bivariate")
  /\ UNCHANGED SESSION_DATA
  /\ IF ~Stored(pending.sid) THEN Rejects
     ELSE /\ SESSION_LOGS' = _log(SESSION_LOGS, pending.sid, "Bivariate Analysis",
                                  <<Line("plots", <<>>)>>)
          /\ resp' = Ok("correlation", NoColumns)

(* ----------------------- backend.py: GET /plots/... -------------------- *)

\* api_plot_univariate: the column asked for is the one at the position of
\* the request, or a name the frame does not have.
api_plot_univariate ==
  LET d == _load_df(pending.sid)
      cid == pending.plan[1].cid
  IN Reads("http", "plot_univariate",
           IF ~(1 <= cid /\ cid <= Len(d.cols)) THEN NotFound
           ELSE IF ~IsNumericDtype(d.cols[cid].dtype) THEN BadRequest
           ELSE Ok("plot", NoColumns))
api_plot_all_univariate ==
  Reads("http", "plot_all",
        IF Len(NumericNames(_load_df(pending.sid))) = 0 THEN BadRequest
        ELSE Ok("plots", NoColumns))
api_plot_heatmap ==
  Reads("http", "heatmap",
        IF Len(NumericNames(_load_df(pending.sid))) < 2 THEN BadRequest
        ELSE Ok("plot", NoColumns))
api_plot_pairplot ==
  Reads("http", "pairplot",
        IF Len(NumericNames(_load_df(pending.sid))) < 2 THEN BadRequest
        ELSE Ok("plot", NoColumns))

(* ---------------------- backend.py: /download/... ---------------------- *)

\* api_download_notebook reads _SESSION_LOGS.get(session_id, []) and raises
\* 404 when there is no entry.
api_download_notebook ==
  /\ Handles("http", "notebook")
  /\ UNCHANGED <<SESSION_DATA, SESSION_LOGS>>
  /\ resp' = IF get_logs(pending.sid) = <<>> THEN NotFound ELSE Ok("notebook", NoColumns)
api_download_csv == Reads("http", "csv", Ok("csv", NoColumns))

\* storage.py _cleanup_session: both dicts lose the id.
Without(f, sid) == [s \in (DOMAIN f) \ {sid} |-> f[s]]
_cleanup_session ==
  /\ prog = "http"
  /\ pending = NoRequest
  /\ nreq < MaxReq
  /\ nreq' = nreq + 1
  /\ \E sid \in SessionIds :
       /\ SESSION_DATA' = Without(SESSION_DATA, sid)
       /\ SESSION_LOGS' = Without(SESSION_LOGS, sid)
       /\ done' = Served(Request("cleanup", sid, <<>>, FALSE))
  /\ UNCHANGED <<prog, pending, resp, nbatch>>

(* ------------------ tp/backend.py: the reading endpoints --------------- *)

\* update_mongo_logs: update_one with $push and no upsert appends to the
\* document of the session and does nothing when there is none.
update_mongo_logs(logs, sid, step, code) ==
  IF sid \in DOMAIN logs THEN _log(logs, sid, step, code) ELSE logs

\* pct > 50 for pct = missing / len(df) * 100, not rounded.
PctAbove50(cnt, n) == 2 * cnt > n
\* suggest_missing of tp/backend.py: the columns with isnull().sum() > 0.
tp_missing_suggestions(d) ==
  LET missing == SelectIdx(ColNames(d), LAMBDA i : CountNA(d.cols[i].vals) > 0)
  IN [i \in 1..Len(missing) |->
        LET c == GetCol(d, missing[i])
        IN Entry(IF PctAbove50(CountNA(c.vals), d.nrows) THEN "drop_col"
                 ELSE IF c.dtype = "object" THEN "mode"
                 ELSE IF SkewAbove1(c.vals) THEN "median"
                 ELSE "mean",
                 ColIdx(d, missing[i]))]
tp_suggest_missing ==
  Reads("tp", "missing_suggestions", OkSuggestions(tp_missing_suggestions(_load_df(pending.sid))))
suggest_outliers ==
  Reads("tp", "outliers_suggestions",
        OkSuggestions(outliers_suggestions(_load_df(pending.sid),
                                           NumberNames(_load_df(pending.sid)))))
suggest_encoding ==
  Reads("tp", "encoding_suggestions", OkSuggestions(encoding_suggestions(_load_df(pending.sid))))
suggest_scaling ==
  Reads("tp", "scaling_suggestions",
        OkSuggestions(scaling_suggestions(_load_df(pending.sid),
                                          NumberNames(_load_df(pending.sid)))))
\* get_univariate_stats: the step is logged, then the statistics are
\* computed.
get_univariate_stats ==
  /\ Handles("tp", "univariate")
  /\ UNCHANGED SESSION_DATA
  /\ IF ~Stored(pending.sid) THEN Rejects
     ELSE /\ SESSION_LOGS' = update_mongo_logs(SESSION_LOGS, pending.sid,
                                               "Univariate Analysis", <<Line("plots", <<>>)>>)
          /\ resp' = IF Describes(NumberNames(_load_df(pending.sid)))
                     THEN Ok("statistics", NoColumns) ELSE ServerError
get_bivariate_corr ==
  /\ Handles("tp", "bivariate")
  /\ UNCHANGED SESSION_DATA
  /\ IF ~Stored(pending.sid) THEN Rejects
     ELSE /\ SESSION_LOGS' = update_mongo_logs(SESSION_LOGS, pending.sid,
                                               "Bivariate Analysis", <<Line("plots", <<>>)>>)
          /\ resp' = Ok("correlation", NoColumns)
\* download_notebook: 404 when sessions_col has no document of the id.
download_notebook ==
  /\ Handles("tp", "notebook")
  /\ UNCHANGED <<SESSION_DATA, SESSION_LOGS>>
  /\ resp' = IF pending.sid \in DOMAIN SESSION_LOGS THEN Ok("notebook", NoColumns)
             ELSE NotFound
download_csv == Reads("tp", "csv", Ok("csv", NoColumns))

(* ------------------------------ clients -------------------------------- *)

\* POST /upload has stored one CSV under a fresh session id and logged it.
Uploaded(p) ==
  /\ prog = p
  /\ \E d \in Datasets : SESSION_DATA = [s \in {"s1"} |-> d]
  /\ SESSION_LOGS = [s \in {"s1"} |-> <<[step |-> "Load Data", code |-> <<Line("read_csv", <<>>)>>]>>]
  /\ pending = NoRequest
  /\ resp = Ok("uploaded", NoColumns)
  /\ done = Served(Request("upload", "s1", <<>>, FALSE))
  /\ nreq = 0
  /\ nbatch = 0

\* A client posts a plan: any plan for a stored session; for an unknown
\* session id the handler never reads the plan, and one plan stands for all.
Send(p, op, actions) ==
  /\ prog = p
  /\ pending = NoRequest
  /\ nreq < MaxReq
  /\ nbatch < MaxBatch
  /\ nreq' = nreq + 1
  /\ nbatch' = nbatch + 1
  /\ \E sid \in SessionIds :
       \E plan \in (IF Stored(sid) THEN Plans(actions) ELSE {<<>>}) :
          \E auto \in (IF op = "correlation" /\ Stored(sid) THEN BOOLEAN ELSE {FALSE}) :
             pending' = Request(op, sid, plan, auto)
  /\ UNCHANGED <<prog, SESSION_DATA, SESSION_LOGS, resp, done>>
\* A client asks for the column descriptors of its session.
SendInfo ==
  /\ prog \in {"http", "tp"}
  /\ pending = NoRequest
  /\ nreq < MaxReq
  /\ nreq' = nreq + 1
  /\ pending' = Request("info", "s1", <<>>, FALSE)
  /\ UNCHANGED <<prog, SESSION_DATA, SESSION_LOGS, resp, done, nbatch>>

SendDrop == Send("http", "drop", {"drop"})
SendMissing == Send("http", "missing", MissingActions)
SendOutliers == Send("http", "outliers", OutlierActions)
SendCorrelation == Send("http", "correlation", CorrActions)
SendEncoding == Send("http", "encoding", EncodingActions)
SendScaling == Send("http", "scaling", ScalingActions)
TpSendDrop == Send("tp", "drop", {"drop"})
TpSendMissing == Send("tp", "missing", MissingActions)
TpSendOutliers == Send("tp", "outliers", OutlierActions)
TpSendCorrelation == Send("tp", "correlation", CorrActions)
TpSendEncoding == Send("tp", "encoding", EncodingActions)
TpSendScaling == Send("tp", "scaling", ScalingActions)

(* --------------------------- specification ----------------------------- *)

NextHttp ==
  \/ SendInfo
  \/ SendDrop
  \/ SendMissing
  \/ SendOutliers
  \/ SendCorrelation
  \/ SendEncoding
  \/ SendScaling
  \/ get_session_info
  \/ api_drop_columns
  \/ api_missing_apply
  \/ api_outliers_apply
  \/ api_corr
  \/ api_encoding_apply
  \/ api_scaling_apply
NextTp ==
  \/ SendInfo
  \/ TpSendDrop
  \/ TpSendMissing
  \/ TpSendOutliers
  \/ TpSendCorrelation
  \/ TpSendEncoding
  \/ TpSendScaling
  \/ get_dataset_info
  \/ drop_columns
  \/ apply_missing_plan
  \/ apply_outlier_plan
  \/ handle_correlation
  \/ apply_encoding
  \/ apply_scaling

NextCli ==
  \/ TypeDropIds
  \/ drop_columns_by_id
  \/ TypeMissingPlan
  \/ handle_missing_values
  \/ TypeMissingChoice
  \/ missing_uncovered_loop
  \/ TypeOutlierPlan
  \/ detect_and_handle_outliers
  \/ TypeOutlierChoice
  \/ outliers_uncovered_loop
  \/ TypeCorrelationPlan
  \/ handle_high_correlation
  \/ TypeCorrelationChoice
  \/ correlation_uncovered_loop
  \/ TypeEncodingPlan
  \/ handle_categorical_encoding
  \/ TypeScalingPlan
  \/ handle_feature_scaling

vars == <<prog, SESSION_DATA, SESSION_LOGS, pending, resp, done, nreq, nbatch,
          pc, df, info, notebook_log, fr, typed, threads, base, _DATASET_CONTEXT, advice>>

\* No request is held by a worker and validate_step has not been called.
NoBase == [df |-> EmptyFrame, logs |-> <<>>]
NoAdvice == [outcome |-> "none"]
NoSide == threads = <<>> /\ base = NoBase /\ _DATASET_CONTEXT = <<>> /\ advice = NoAdvice

\* No CLI runs beside a backend.
NoCli ==
  /\ pc = "off" /\ df = EmptyFrame /\ info = <<>> /\ notebook_log = <<>>
  /\ fr = NoFrame /\ typed = NoInput
\* No backend runs beside the CLI.
NoBackend ==
  /\ SESSION_DATA = <<>> /\ SESSION_LOGS = <<>> /\ pending = NoRequest
  /\ resp = Ok("", NoColumns) /\ done = Served(NoRequest) /\ nreq = 0 /\ nbatch = 0
\* run_cli has loaded the CSV and stands before one of its steps (each is
\* reached with the loaded frame by declining the steps before it).
Stages == {"drop", "missing", "outliers", "correlation", "encoding", "scaling"}
InitCli ==
  /\ prog = "cli" /\ NoBackend /\ NoSide
  /\ pc \in Stages
  /\ df \in Datasets
  /\ info = get_df_info(df)
  /\ notebook_log = <<[step |-> "Load Data", code |-> <<Line("read_csv", <<>>)>>]>>
  /\ fr = NoFrame
  /\ typed = NoInput
InitHttp == Uploaded("http") /\ NoCli /\ NoSide
InitTp == Uploaded("tp") /\ NoCli /\ NoSide

Init == InitHttp \/ InitTp \/ InitCli
Next == (NextHttp /\ UNCHANGED offVars) \/ (NextTp /\ UNCHANGED offVars) \/ NextCli
Spec == Init /\ [][Next]_vars
SpecHttp == InitHttp /\ [][NextHttp /\ UNCHANGED offVars]_vars
SpecTp == InitTp /\ [][NextTp /\ UNCHANGED offVars]_vars
SpecCli == InitCli /\ [][NextCli]_vars

\* The endpoints that take a session id and no plan.
HttpAskOps ==
  {"missing_suggestions", "outliers_suggestions", "encoding_suggestions",
   "scaling_suggestions", "univariate", "bivariate", "plot_all", "heatmap", "pairplot",
   "notebook", "csv"}
TpAskOps ==
  {"missing_suggestions", "outliers_suggestions", "encoding_suggestions",
   "scaling_suggestions", "univariate", "bivariate", "notebook", "csv"}
\* A client calls one of these endpoints with its session id or with an id
\* that no upload has returned.
Ask(p, ops) ==
  /\ prog = p
  /\ pending = NoRequest
  /\ nreq < MaxReq
  /\ nreq' = nreq + 1
  /\ \E op \in ops : \E sid \in SessionIds : pending' = Request(op, sid, <<>>, FALSE)
  /\ UNCHANGED <<prog, SESSION_DATA, SESSION_LOGS, resp, done, nbatch>>
AskHttp == Ask("http", HttpAskOps)
AskTp == Ask("tp", TpAskOps)
\* GET /plots/univariate/{session_id}/{column_name}: the column at a position
\* of the frame, or a name it does not have.
AskPlot ==
  /\ prog = "http"
  /\ pending = NoRequest
  /\ nreq < MaxReq
  /\ nreq' = nreq + 1
  /\ \E sid \in SessionIds : \E cid \in PromptIds \cup {MaxId} :
        pending' = Request("plot_univariate", sid, <<Entry("column", cid)>>, FALSE)
  /\ UNCHANGED <<prog, SESSION_DATA, SESSION_LOGS, resp, done, nbatch>>

\* A client posts a plan under a session id that is not stored: the handler
\* raises before it reads the plan.
SendLost(p) ==
  /\ prog = p
  /\ pending = NoRequest
  /\ nreq < MaxReq
  /\ nbatch < MaxBatch
  /\ nreq' = nreq + 1
  /\ nbatch' = nbatch + 1
  /\ \E op \in {"missing", "outliers", "correlation", "encoding", "scaling"} :
        \E sid \in SessionIds \ DOMAIN SESSION_DATA :
           pending' = Request(op, sid, <<>>, FALSE)
  /\ UNCHANGED <<prog, SESSION_DATA, SESSION_LOGS, resp, done>>

\* Both backends with all their endpoints that take a session id. The
\* stored frame changes by POST /clean/drop; the other clean endpoints are
\* called with an id that is not stored.
NextAskHttp ==
  \/ SendInfo
  \/ SendDrop
  \/ SendLost("http")
  \/ AskHttp
  \/ AskPlot
  \/ _cleanup_session
  \/ get_session_info
  \/ api_drop_columns
  \/ api_missing_apply
  \/ api_outliers_apply
  \/ api_corr
  \/ api_encoding_apply
  \/ api_scaling_apply
  \/ api_missing_suggestions
  \/ api_outliers_suggestions
  \/ api_encoding_suggestions
  \/ api_scaling_suggestions
  \/ api_univariate
  \/ api_bivariate
  \/ api_plot_univariate
  \/ api_plot_all_univariate
  \/ api_plot_heatmap
  \/ api_plot_pairplot
  \/ api_download_notebook
  \/ api_download_csv
NextAskTp ==
  \/ SendInfo
  \/ TpSendDrop
  \/ SendLost("tp")
  \/ AskTp
  \/ get_dataset_info
  \/ drop_columns
  \/ apply_missing_plan
  \/ apply_outlier_plan
  \/ handle_correlation
  \/ apply_encoding
  \/ apply_scaling
  \/ tp_suggest_missing
  \/ suggest_outliers
  \/ suggest_encoding
  \/ suggest_scaling
  \/ get_univariate_stats
  \/ get_bivariate_corr
  \/ download_notebook
  \/ download_csv
SpecAsk ==
  (InitHttp \/ InitTp) /\ [][(NextAskHttp \/ NextAskTp) /\ UNCHANGED offVars]_vars

\* The suggestion rules on the files of SuggestDatasets: the suggestion
\* endpoints for missing values and outliers of both backends, and the
\* missing-value and outlier steps of the CLI.
InitSuggest ==
  \/ /\ prog \in {"http", "tp"}
     /\ \E d \in SuggestDatasets : SESSION_DATA = [s \in {"s1"} |-> d]
     /\ SESSION_LOGS = [s \in {"s1"} |->
                          <<[step |-> "Load Data", code |-> <<Line("read_csv", <<>>)>>]>>]
     /\ pending = NoRequest
     /\ resp = Ok("uploaded", NoColumns)
     /\ done = Served(Request("upload", "s1", <<>>, FALSE))
     /\ nreq = 0 /\ nbatch = 0
     /\ NoCli /\ NoSide
  \/ /\ prog = "cli" /\ NoBackend /\ NoSide
     /\ pc \in {"missing", "outliers"}
     /\ df \in SuggestDatasets
     /\ info = get_df_info(df)
     /\ notebook_log = <<[step |-> "Load Data", code |-> <<Line("read_csv", <<>>)>>]>>
     /\ fr = NoFrame
     /\ typed = NoInput
AskSuggestions ==
  \/ Ask("http", {"missing_suggestions", "outliers_suggestions"})
  \/ Ask("tp", {"missing_suggestions", "outliers_suggestions"})
NextSuggest ==
  \/ AskSuggestions /\ UNCHANGED offVars
  \/ api_missing_suggestions /\ UNCHANGED offVars
  \/ api_outliers_suggestions /\ UNCHANGED offVars
  \/ tp_suggest_missing /\ UNCHANGED offVars
  \/ suggest_outliers /\ UNCHANGED offVars
  \/ TypeMissingPlan
  \/ handle_missing_values
  \/ TypeMissingChoice
  \/ missing_uncovered_loop
  \/ TypeOutlierPlan
  \/ detect_and_handle_outliers
  \/ TypeOutlierChoice
  \/ outliers_uncovered_loop
SpecSuggest == InitSuggest /\ [][NextSuggest]_vars

(* ------------------ two clean requests for one session ------------------ *)

\* (action, id) entries of the plan of a request served beside another.
MaxThreadPlan == 1
\* The endpoints the two requests go to, and their plans.
ThreadOps == {"drop", "missing"}
ThreadPlans(op) ==
  {p \in Plans(IF op = "drop" THEN {"drop"} ELSE MissingActions) : Len(p) <= MaxThreadPlan}
\* A request in flight: at is where its handler stands ("load" before
\* load_df, "save" between load_df and save_df, "log" before
\* update_mongo_logs, "done" after the return), df and logs its locals.
Thread(req, at, d, step, logs) == [req |-> req, at |-> at, df |-> d, step |-> step, logs |-> logs]
Moves(t, at, d, step, logs) ==
  threads' = [threads EXCEPT ![t] = Thread(threads[t].req, at, d, step, logs)]
Ends(t) == Moves(t, "done", EmptyFrame, "", <<>>)

\* A client posts a clean request for the session while at most one other is
\* in flight.
Accept ==
  /\ prog \in {"http", "tp"}
  /\ Len(threads) < 2
  /\ \E op \in ThreadOps : \E plan \in ThreadPlans(op) :
       threads' = Append(threads, Thread(Request(op, "s1", plan, FALSE), "load",
                                         EmptyFrame, "", <<>>))
  /\ UNCHANGED <<httpVars, cliVars, base, _DATASET_CONTEXT, advice>>

\* backend.py: the handlers are coroutines without an await, so the event
\* loop runs one from its first line to its return before it starts another.
loop_run ==
  /\ prog = "http" /\ pending = NoRequest
  /\ \E t \in DOMAIN threads :
       /\ threads[t].at = "load"
       /\ pending' = threads[t].req
       /\ Moves(t, "save", EmptyFrame, "", <<>>)
  /\ UNCHANGED <<prog, SESSION_DATA, SESSION_LOGS, resp, done, nreq, nbatch>>
  /\ UNCHANGED <<cliVars, base, _DATASET_CONTEXT, advice>>
loop_handle ==
  /\ api_drop_columns \/ api_missing_apply
  /\ \E t \in DOMAIN threads : threads[t].at = "save" /\ Ends(t)
  /\ UNCHANGED <<cliVars, base, _DATASET_CONTEXT, advice>>

\* tp/backend.py: the handlers are plain functions, which FastAPI runs in
\* threads of a pool; a thread may be suspended between any two statements.
\* load_df: the thread reads the parquet file of the session into its df.
tp_load ==
  /\ prog = "tp"
  /\ \E t \in DOMAIN threads :
       /\ threads[t].at = "load"
       /\ IF Stored(threads[t].req.sid)
          THEN Moves(t, "save", _load_df(threads[t].req.sid), "", <<>>)
          ELSE Ends(t)
  /\ UNCHANGED <<httpVars, cliVars, base, _DATASET_CONTEXT, advice>>
\* The thread t leaves its handler with the frame out saved when the handler
\* got to save_df, and the lines of code still to log.
tp_saves(t, saved, out, step, code) ==
  /\ SESSION_DATA' = IF saved THEN _save_df(SESSION_DATA, threads[t].req.sid, out)
                     ELSE SESSION_DATA
  /\ IF saved /\ code # <<>> THEN Moves(t, "log", out, step, code) ELSE Ends(t)
\* drop_columns and apply_missing_plan from the statement after load_df to
\* save_df: the plan is applied to the thread's df, which is then written
\* over the file.
tp_save ==
  /\ prog = "tp"
  /\ \E t \in DOMAIN threads :
       /\ threads[t].at = "save"
       /\ IF threads[t].req.op = "drop"
          THEN LET cols_to_drop == ValidNames(ColNames(threads[t].df),
                                              IdsOf(threads[t].req.plan, "drop"))
               IN tp_saves(t, cols_to_drop # <<>>,
                           DropCols(threads[t].df, Range(cols_to_drop)),
                           "Drop Columns", <<Line("drop", cols_to_drop)>>)
          ELSE \E inplace \in BOOLEAN :
                 LET st == tp_missing_loop(threads[t].df, threads[t].req.plan, inplace)
                 IN tp_saves(t, ~st.err, st.df, "Handle Missing Values", st.logs)
  /\ UNCHANGED <<prog, SESSION_LOGS, pending, resp, done, nreq, nbatch>>
  /\ UNCHANGED <<cliVars, base, _DATASET_CONTEXT, advice>>
\* update_mongo_logs, then the return.
tp_log ==
  /\ prog = "tp"
  /\ \E t \in DOMAIN threads :
       /\ threads[t].at = "log"
       /\ SESSION_LOGS' = update_mongo_logs(SESSION_LOGS, threads[t].req.sid,
                                            threads[t].step, threads[t].logs)
       /\ Ends(t)
  /\ UNCHANGED <<prog, SESSION_DATA, pending, resp, done, nreq, nbatch>>
  /\ UNCHANGED <<cliVars, base, _DATASET_CONTEXT, advice>>

InitThreads ==
  /\ Uploaded("http") \/ Uploaded("tp")
  /\ NoCli
  /\ threads = <<>>
  /\ base = [df |-> SESSION_DATA["s1"], logs |-> SESSION_LOGS["s1"]]
  /\ _DATASET_CONTEXT = <<>>
  /\ advice = NoAdvice
NextThreads ==
  \/ Accept
  \/ loop_run
  \/ loop_handle
  \/ tp_load
  \/ tp_save
  \/ tp_log
SpecThreads == InitThreads /\ [][NextThreads]_vars

(* ------------------------ backend/ai_utils.py --------------------------- *)

\* JSON values as Python holds them.
JBool(b) == [t |-> "bool", b |-> b]
JStr(lines) == [t |-> "str", lines |-> lines]
JList(items) == [t |-> "list", items |-> items]
JNull == [t |-> "none"]
\* dict.get(key, default)
Get(dict, key, default) == IF key \in DOMAIN dict THEN dict[key] ELSE default
\* str.lower() of the answers met here.
Lower(s) == IF s = "Yes" THEN "yes" ELSE s

\* What the model may answer under the keys is_good, risks and
\* recommendation, each of which it may leave out.
Goods == {JBool(TRUE), JBool(FALSE), JStr(<<"Yes">>), JStr(<<"no">>)}
Risks == {JList(<<>>), JList(<<"loss">>), JStr(<<"loss", "", "bias">>), JNull}
Recommendations == {JStr(<<"keep">>)}
Answered(keys, g, r, c) ==
  [k \in keys |-> IF k = "is_good" THEN g ELSE IF k = "risks" THEN r ELSE c]
ParsedDicts ==
  {Answered(keys, g, r, c) :
     keys \in SUBSET {"is_good", "risks", "recommendation"},
     g \in Goods, r \in Risks, c \in Recommendations}
\* _call_ai: what it returns for each way the call can go. Without the key,
\* on a status other than 200 and on any exception it returns {"error": ...};
\* a reply that json.loads rejects comes back as {"raw_response": ...}; a
\* reply that parses is returned as parsed, a dict or not.
Unavailable == {"no_key", "status", "exception", "unparsable"}
_call_ai ==
  {[kind |-> k, reply |-> [error |-> k]] : k \in {"no_key", "status", "exception"}}
    \cup {[kind |-> "unparsable", reply |-> [raw_response |-> "text"]]}
    \cup {[kind |-> "parsed", reply |-> d] : d \in ParsedDicts}
    \cup {[kind |-> "parsed", reply |-> JList(<<>>)]}

\* The steps a caller names, and the columns it may list: none, columns of
\* the files, or a column made after the context was stored.
StepNames == {"drop_columns", "handle_missing", "encode"}
AffectedColumns == {<<>>, <<"age">>, <<"code">>, <<"city_a">>}

\* analyze_dataset stores the frame it is given as the context of the
\* session, whatever _call_ai returned.
analyze_dataset ==
  /\ prog = "http"
  /\ \E sid \in DOMAIN SESSION_DATA : \E ai \in _call_ai :
       _DATASET_CONTEXT' =
          [s \in DOMAIN _DATASET_CONTEXT \cup {sid} |->
             IF s = sid THEN [df |-> SESSION_DATA[sid], insights |-> ai.kind]
             ELSE _DATASET_CONTEXT[s]]
  /\ UNCHANGED <<httpVars, cliVars, threads, base, advice>>
\* cleanup_session: _DATASET_CONTEXT.pop(session_id, None)
cleanup_session ==
  /\ prog = "http"
  /\ \E sid \in SessionIds :
       /\ sid \in DOMAIN _DATASET_CONTEXT
       /\ _DATASET_CONTEXT' = Without(_DATASET_CONTEXT, sid)
  /\ UNCHANGED <<httpVars, cliVars, threads, base, advice>>

\* risks: a string is split into its non-empty lines, what is not a list
\* becomes [].
RisksOf(v) ==
  IF v.t = "str" THEN SelectSeq(v.lines, LAMBDA line : line # "")
  ELSE IF v.t = "list" THEN v.items
  ELSE <<>>
\* is_recommended: a string counts as yes when it is 'yes', 'true' or 'y'.
RecommendedOf(v) ==
  IF v.t = "str" THEN JBool(Lower(v.lines[1]) \in {"yes", "true", "y"}) ELSE v
\* The dict validate_step returns for the dict validation of _call_ai.
Validation(step_name, validation) ==
  [step |-> step_name,
   is_recommended |-> RecommendedOf(Get(validation, "is_good", JBool(TRUE))),
   warnings |-> RisksOf(Get(validation, "risks", JList(<<>>))),
   recommendation |-> Get(validation, "recommendation", JStr(<<"Proceed with caution">>))]
\* df[affected_columns] raises KeyError for a column the context frame lacks.
Describable(sid, affected) ==
  \/ affected = <<>>
  \/ sid \notin DOMAIN _DATASET_CONTEXT
  \/ \A i \in 1..Len(affected) : HasCol(_DATASET_CONTEXT[sid].df, affected[i])
\* validate_step: the statistics of the affected columns of the context
\* frame, the call, and the result; ai is how the call went (kept as history).
validate_step ==
  /\ prog = "http"
  /\ \E sid \in SessionIds : \E step_name \in StepNames :
       \E affected \in AffectedColumns : \E ai \in _call_ai :
          advice' = IF ~Describable(sid, affected) \/ ai.reply \in {JList(<<>>)}
                    THEN [outcome |-> "raised", ai |-> ai.kind]
                    ELSE [outcome |-> "returned", ai |-> ai.kind,
                          result |-> Validation(step_name, ai.reply)]
  /\ UNCHANGED <<httpVars, cliVars, threads, base, _DATASET_CONTEXT>>

NextAdvice ==
  \/ analyze_dataset
  \/ cleanup_session
  \/ validate_step
SpecAdvice == InitHttp /\ [][NextAdvice]_vars

(* ------------------------------ claims --------------------------------- *)

\* The descriptors inf number the columns of d: ids 1..N, the descriptor
\* with id i naming the i-th column.
WellNumbered(inf, d) ==
  /\ Len(inf) = Len(d.cols)
  /\ \A i \in 1..Len(inf) : inf[i].id = i /\ inf[i].column_name = d.cols[i].name
\* A backend handler is about to serve a request on a stored session.
Serving(op) == prog \in {"http", "tp"} /\ pending.op = op /\ Stored(pending.sid)
\* The frame a CLI step leaves: run_cli's df once the step returned, the
\* step's own updated_df while it waits at its prompt.
CliFrameNext == IF pc' = "done" THEN df' ELSE fr'.updated_df

\* C1: after every operation that changes the columns, in the CLI and in the
\* HTTP backends, the descriptors returned have the ids 1..N, N the number of
\* columns, and the descriptor with id i names the i-th column.
C1_DescriptorsNumbered ==
  /\ (prog = "cli" /\ pc = "done") => WellNumbered(info, df)
  /\ (prog \in {"http", "tp"} /\ resp.status = 200 /\ resp.columns # NoColumns)
        => WellNumbered(resp.columns, SESSION_DATA[done.sid])
\* The CLI dropped the first column in the missing-value step.
C1_Witness ==
  /\ prog = "cli" /\ pc = "done"
  /\ Len(notebook_log) = 2 /\ notebook_log[2].step = "Handle Missing Values"
  /\ ColNames(df) = <<"inc", "city">>

\* The column of an uncovered id is resolved in the frame d: dropped, or
\* left without a missing value.
MissingResolved(d, id) ==
  \/ ~HasCol(d, RowOfId(info, id).column_name)
  \/ CountNA(GetCol(d, RowOfId(info, id).column_name).vals) = 0
\* No value of the column of the id lies outside its bounds in the frame d.
OutliersResolved(d, rows, id) ==
  CountOutliers(GetCol(d, RowOfId(info, id).column_name).vals, RowOfId(rows, id).bounds) = 0
\* C2: in the missing-value and outlier resolvers uncovered_ids is the
\* eligible ids minus the ids of the plan, and when the caller chooses
\* 'apply suggestions' every uncovered id gets its suggested action, so
\* that no eligible id is left unresolved.
C2_SuggestionsResolveAll ==
  [][/\ (prog = "cli" /\ pc = "missing" /\ pc' = "missing_choice")
           => fr'.uncovered_ids = all_missing_ids(info) \ AllIds(typed.plan)
     /\ (prog = "cli" /\ pc = "outliers" /\ pc' = "outliers_choice")
           => fr'.uncovered_ids = all_outlier_ids(df, info) \ AllIds(typed.plan)
     /\ (prog = "cli" /\ pc = "missing_choice" /\ typed.kind = "choice" /\ typed.choice = 2)
           => /\ pc' = "done"
              /\ \A id \in fr.uncovered_ids : MissingResolved(df', id)
     /\ (prog = "cli" /\ pc = "outliers_choice" /\ typed.kind = "choice" /\ typed.choice = 2)
           => /\ pc' = "done"
              /\ \A id \in fr.uncovered_ids :
                    OutliersResolved(df', outlier_cols_info(df, info), id)]_vars

\* C3: in the resolution of the uncovered columns of every domain, a
\* supplementary plan that leaves an uncovered id unaddressed makes the
\* resolver ask again.
C3_AsksAgainWhileUncovered ==
  [][(/\ prog = "cli"
      /\ pc \in {"missing_choice", "outliers_choice", "correlation_choice"}
      /\ typed.kind = "choice" /\ typed.choice = 1
      /\ fr.uncovered_ids \ (fr.covered_ids \cup AllIds(typed.plan)) # {})
        => pc' = pc]_vars

\* The endpoints that apply a plan.
PlanOps == {"drop", "missing", "outliers", "correlation", "encoding", "scaling"}
OutOfRange(d, id) == ~(1 <= id /\ id <= Len(d.cols))
\* C4: in both HTTP backends an id outside 1..N is skipped by every
\* plan-applying operation: the operation completes without error and no
\* column is modified on behalf of that id. Stated for the plans whose ids
\* all lie outside 1..N, which must then change nothing.
C4_InvalidIdsSkipped ==
  [][(/\ pending.op \in PlanOps /\ Serving(pending.op)
      /\ pending.plan # <<>> /\ ~pending.auto
      /\ \A i \in 1..Len(pending.plan) :
            OutOfRange(SESSION_DATA[pending.sid], pending.plan[i].cid))
        => /\ resp'.status = 200
           /\ SESSION_DATA' = SESSION_DATA]_vars

\* A plan that lists one valid id under two actions.
TwoActions(plan, n) ==
  /\ Len(plan) = 2
  /\ plan[1].cid = plan[2].cid /\ plan[1].action # plan[2].action
  /\ 1 <= plan[1].cid /\ plan[1].cid <= n
\* C5: a plan that lists one column id under two actions is applied without
\* an error, and the result is that of the action applied last.
C5_LastActionWins ==
  [][/\ (Serving("missing")
            /\ TwoActions(pending.plan, Len(SESSION_DATA[pending.sid].cols)))
          => /\ resp'.status = 200
             /\ \E inplace \in BOOLEAN :
                   SESSION_DATA'[pending.sid] =
                      IF prog = "http"
                      THEN missing_apply_loop(SESSION_DATA[pending.sid],
                                              <<pending.plan[2]>>).df
                      ELSE tp_missing_loop(SESSION_DATA[pending.sid],
                                           <<pending.plan[2]>>, inplace).df
     /\ (prog = "cli" /\ pc = "missing" /\ typed.kind = "plan" /\ ~typed.approve
            /\ TwoActions(typed.plan, Len(info)))
          => /\ pc' # "crashed"
             /\ CliFrameNext =
                   apply_actions(Frame(df, info, all_missing_ids(info), typed.plan),
                                 <<typed.plan[2]>>, all_missing_ids(info),
                                 typed.convert).updated_df]_vars

\* The columns of d the correlation check looks at, as positions: the
\* float64 and int64 columns.
NumericAt(d) == {i \in 1..Len(d.cols) : IsFloatOrInt64(d.cols[i].dtype)}
Correlated(d, i, j) == CorrAbove(d.cols[i].vals, d.cols[j].vals, DefaultThreshold)
\* The columns that have a correlated numeric column to their left.
LaterOfPair(d) ==
  {d.cols[j].name : j \in {j \in NumericAt(d) :
                             \E i \in NumericAt(d) : i < j /\ Correlated(d, i, j)}}
\* The columns of all the correlated pairs.
BothOfPair(d) ==
  {d.cols[j].name : j \in {j \in NumericAt(d) :
                             \E i \in NumericAt(d) : i # j /\ Correlated(d, i, j)}}
\* What the correlation check shows of its flagged set, against the set
\* flagged(d): the names the endpoint reports or drops on auto_drop, and the
\* columns the CLI step drops when the user approves the suggestion.
FlaggedIs(flagged(_)) ==
  /\ (Serving("correlation")
         /\ resp'.status = 200 /\ resp'.message \in {"detected", "auto-dropped"})
       => Range(resp'.names) = flagged(SESSION_DATA[pending.sid])
  /\ (prog = "cli" /\ pc = "correlation" /\ typed.kind = "plan" /\ typed.approve)
       => /\ pc' = "done"
          /\ Range(ColNames(df')) = Range(ColNames(df)) \ flagged(df)

C7_NoLogOnError ==
  [][/\ (prog \in {"http", "tp"} /\ pending # NoRequest /\ resp'.status = 500)
          => SESSION_LOGS' = SESSION_LOGS
     /\ (prog = "cli" /\ pc' = "crashed") => notebook_log' = notebook_log]_vars
\* A missing-value batch dropped a column, logged the line, and then raised
\* on the second entry: the log has the upload entry only.
C7_Witness ==
  /\ prog = "http" /\ done.op = "missing" /\ resp.status = 500
  /\ done.plan = <<Entry("drop_col", 1), Entry("mean", 1)>>
  /\ Len(ColNames(SESSION_DATA[done.sid])) = 3
  /\ Len(SESSION_LOGS[done.sid]) = 1

\* The entry asks mean or median of a categorical column of d that
\* pd.to_numeric cannot convert.
FailsCoercion(d, e) ==
  /\ e.action \in {"mean", "median"}
  /\ 1 <= e.cid /\ e.cid <= Len(d.cols)
  /\ IsObject(d.cols[e.cid].dtype)
  /\ ~(\A i \in 1..d.nrows : d.cols[e.cid].vals[i].t = "s" => Parses(d.cols[e.cid].vals[i].s))
\* The plan has such an entry, and the columns of these entries are named by
\* no other entry.
CoercionFailsIn(d, plan) ==
  /\ \E i \in 1..Len(plan) : FailsCoercion(d, plan[i])
  /\ \A i, j \in 1..Len(plan) :
        (FailsCoercion(d, plan[i]) /\ plan[j].cid = plan[i].cid) => FailsCoercion(d, plan[j])
WithoutFailing(d, plan) == SelectIdx(plan, LAMBDA i : ~FailsCoercion(d, plan[i]))
FailingNames(d, plan) ==
  {d.cols[plan[i].cid].name : i \in {i \in 1..Len(plan) : FailsCoercion(d, plan[i])}}
\* No line of the code names one of the columns.
NotLogged(code, names) == \A i \in 1..Len(code) : Range(code[i].cols) \cap names = {}
\* The handler leaves what the loop outcome st of the other entries leaves.
SkippedAs(st) ==
  /\ resp'.status = IF st.err THEN 500 ELSE 200
  /\ SESSION_DATA'[pending.sid] = IF st.err THEN st.stored ELSE st.df
  /\ SESSION_LOGS' = IF st.err \/ st.logs = <<>> THEN SESSION_LOGS
                     ELSE _log(SESSION_LOGS, pending.sid, "Handle Missing Values", st.logs)
\* C8: when mean or median is asked of a categorical column and the numeric
\* conversion fails, the column keeps its values and its dtype, no operation
\* is logged for it, and the other entries of the batch are applied: the
\* batch does what the plan without these entries does.
C8_FailedCoercionSkipped ==
  [][/\ (Serving("missing")
            /\ CoercionFailsIn(SESSION_DATA[pending.sid], pending.plan))
          => LET d == SESSION_DATA[pending.sid]
                 failing == FailingNames(d, pending.plan)
             IN /\ \A c \in failing :
                      /\ HasCol(SESSION_DATA'[pending.sid], c)
                      /\ GetCol(SESSION_DATA'[pending.sid], c) = GetCol(d, c)
                /\ \A sid \in DOMAIN SESSION_LOGS' :
                      SESSION_LOGS'[sid] # get_logs(sid) =>
                         NotLogged(SESSION_LOGS'[sid][Len(SESSION_LOGS'[sid])].code, failing)
                /\ \E inplace \in BOOLEAN :
                      SkippedAs(IF prog = "http"
                                THEN missing_apply_loop(d, WithoutFailing(d, pending.plan))
                                ELSE tp_missing_loop(d, WithoutFailing(d, pending.plan),
                                                     inplace))
     /\ (prog = "cli" /\ pc = "missing" /\ typed.kind = "plan" /\ ~typed.approve
            /\ typed.convert /\ CoercionFailsIn(df, typed.plan))
          => LET ids == all_missing_ids(info)
                 f == apply_actions(Frame(df, info, ids, typed.plan),
                                    WithoutFailing(df, typed.plan), ids, TRUE)
             IN /\ ~f.err
                /\ pc' # "crashed"
                /\ \A c \in FailingNames(df, typed.plan) :
                      GetCol(CliFrameNext, c) = GetCol(df, c)
                /\ CliFrameNext = f.updated_df
                /\ IF pc' = "done"
                   THEN /\ NotLogged(notebook_log'[Len(notebook_log')].code,
                                     FailingNames(df, typed.plan))
                        /\ f.log_code = <<>> => notebook_log' = notebook_log
                        /\ f.log_code # <<>> =>
                              notebook_log'[Len(notebook_log')].code = f.log_code
                   ELSE fr'.log_code = f.log_code]_vars
\* POST /clean/missing took mean of the text column city and mode of age:
\* city is as uploaded, age is filled, and the log has the one line of age.
C8_Witness ==
  /\ prog = "http" /\ done.op = "missing" /\ resp.status = 200
  /\ done.plan = <<Entry("mean", 3), Entry("mode", 1)>>
  /\ ColNames(SESSION_DATA[done.sid]) = ColNames(DataA)
  /\ GetCol(SESSION_DATA[done.sid], "city") = GetCol(DataA, "city")
  /\ CountNA(GetCol(SESSION_DATA[done.sid], "age").vals) = 0
  /\ SESSION_LOGS[done.sid][2].code = <<Line("mode", <<"age">>)>>

\* A plan that lists ids, all of them under no-op actions.
OnlyNoOps(plan, noops) ==
  plan # <<>> /\ \A i \in 1..Len(plan) : plan[i].action \in noops
NoOpOf(op) ==
  CASE op = "outliers" -> {"none"}
    [] op = "correlation" -> {"keep"}
    [] op \in {"encoding", "scaling"} -> {"skip"}
    [] OTHER -> {}
\* The CLI stage of a prompt of the uncovered-columns loop.
StageOf(p) == IF p = "outliers_choice" THEN "outliers" ELSE "correlation"
\* C9: a batch whose plan has only no-op actions (outliers none, correlation
\* keep without auto_drop, encoding and scaling skip) leaves the dataset as
\* it was: the same columns in the same order, the same rows and values.
C9_NoOpPlanChangesNothing ==
  [][/\ (prog \in {"http", "tp"} /\ Serving(pending.op) /\ ~pending.auto
            /\ OnlyNoOps(pending.plan, NoOpOf(pending.op)))
          => /\ resp'.status = 200
             /\ SESSION_DATA' = SESSION_DATA
     /\ (prog = "cli" /\ pc \in {"outliers", "correlation", "encoding", "scaling"}
            /\ typed.kind = "plan" /\ ~typed.approve
            /\ OnlyNoOps(typed.plan, NoOpOf(pc)))
          => /\ pc' # "crashed"
             /\ CliFrameNext = df
     /\ (prog = "cli" /\ pc \in {"outliers_choice", "correlation_choice"}
            /\ typed.kind = "choice" /\ typed.choice = 1
            /\ OnlyNoOps(typed.plan, NoOpOf(StageOf(pc))))
          => /\ pc' = "done"
             /\ df' = fr.updated_df]_vars
\* POST /clean/encoding served the plan {skip: [3]} for the text column city.
C9_Witness ==
  /\ prog = "http" /\ done.op = "encoding" /\ resp.status = 200
  /\ done.plan = <<Entry("skip", 3)>>
  /\ SESSION_DATA[done.sid] = DataA
  /\ Len(SESSION_LOGS[done.sid]) = 1

\* The log new is old, or old with one entry more that holds code.
ExtendsByOne(old, new) ==
  \/ new = old
  \/ /\ Len(new) = Len(old) + 1
     /\ SubSeq(new, 1, Len(old)) = old
     /\ new[Len(new)].code # <<>>
\* C10: an operation leaves the log as it was or extends it by one entry,
\* never by one entry per column; a batch that changed the dataset has
\* appended its entry; the entries the log had stay as they were.
C10_OneEntryPerBatch ==
  [][/\ prog \in {"http", "tp"} =>
          /\ DOMAIN SESSION_LOGS \subseteq DOMAIN SESSION_LOGS'
          /\ \A sid \in DOMAIN SESSION_LOGS' :
                ExtendsByOne(get_logs(sid), SESSION_LOGS'[sid])
          /\ \A sid \in DOMAIN SESSION_DATA :
                (resp'.status = 200 /\ SESSION_DATA'[sid] # SESSION_DATA[sid])
                   => Len(SESSION_LOGS'[sid]) = Len(get_logs(sid)) + 1
     /\ prog = "cli" =>
          /\ ExtendsByOne(notebook_log, notebook_log')
          /\ (pc' = "done" /\ df' # df) => Len(notebook_log') = Len(notebook_log) + 1
          /\ pc' # "done" => notebook_log' = notebook_log]_vars
\* A missing-value batch of two operations on two columns left one entry of
\* two lines after the upload entry.
C10_Witness ==
  /\ prog = "http" /\ done.op = "missing" /\ resp.status = 200
  /\ done.plan = <<Entry("mode", 3), Entry("drop_col", 1)>>
  /\ Len(SESSION_LOGS[done.sid]) = 2
  /\ Len(SESSION_LOGS[done.sid][2].code) = 2

(* ------------------------------- C13 ----------------------------------- *)

\* A plan of one entry, remove_rows of the column with the id cid.
RemovesRowsOf(plan, cid) == plan = <<Entry("remove_rows", cid)>>
\* The rows of vals that are not outside the bounds b: the rows in the
\* bounds and the rows that hold the missing-marker.
NotOutside(vals, b) == {i \in 1..Len(vals) : ~IsOutlier(vals[i], b)}
\* C13: remove_rows on a column removes exactly the rows whose value lies
\* outside [lower, upper]; every other row, the rows whose value in that
\* column is the missing-marker included, is kept, in the original order.
C13_RemoveRowsKeepsOthers ==
  [][/\ \A cid \in Ids :
          (/\ Serving("outliers") /\ RemovesRowsOf(pending.plan, cid)
           /\ ~OutOfRange(SESSION_DATA[pending.sid], cid)
           /\ IsNumericDtype(SESSION_DATA[pending.sid].cols[cid].dtype))
            => LET d == SESSION_DATA[pending.sid]
                   vals == d.cols[cid].vals
               IN SESSION_DATA'[pending.sid] = KeepRows(d, NotOutside(vals, IqrBounds(vals)))
     /\ \A cid \in Ids :
          (/\ prog = "cli" /\ pc = "outliers" /\ typed.kind = "plan" /\ ~typed.approve
           /\ RemovesRowsOf(typed.plan, cid)
           /\ cid \in all_outlier_ids(df, info))
            => LET rows == outlier_cols_info(df, info)
                   vals == GetCol(df, RowOfId(info, cid).column_name).vals
               IN CliFrameNext = KeepRows(df, NotOutside(vals, RowOfId(rows, cid).bounds))]_vars

(* ------------------------------- C11 ----------------------------------- *)

\* The five domains: the endpoint names of the backends, the stage names of
\* the CLI.
Domains == {"missing", "outliers", "correlation", "encoding", "scaling"}
\* The frame d has no eligible column in the domain: no column with a
\* missing value, no numeric column with an outlier, fewer than two numeric
\* columns or no pair above the threshold, no categorical column, no numeric
\* column with more than two distinct values.
NoEligible(domain, d) ==
  CASE domain = "missing" -> \A i \in 1..Len(d.cols) : CountNA(d.cols[i].vals) = 0
    [] domain = "outliers" -> with_outliers(d, NumericNames(d)) = <<>>
    [] domain = "correlation" ->
         \/ Len(NumericNames(d)) < 2
         \/ HighCorrCols(d, NumericNames(d), DefaultThreshold) = <<>>
    [] domain = "encoding" -> cat_cols(d) = <<>>
    [] domain = "scaling" -> numeric_cols(d) = <<>>
\* C11: when a domain has no eligible column, the operation of the domain
\* returns without an error and leaves the dataset, the descriptors and the
\* log as they were, in the CLI steps and in the endpoints of both backends.
C11_NoEligibleColumnNoOp ==
  [][/\ (pending.op \in Domains /\ Serving(pending.op)
            /\ NoEligible(pending.op, SESSION_DATA[pending.sid]))
          => /\ resp'.status = 200
             /\ SESSION_DATA' = SESSION_DATA
             /\ SESSION_LOGS' = SESSION_LOGS
     /\ (prog = "cli" /\ pc \in Domains /\ NoEligible(pc, df))
          => /\ pc' = "done"
             /\ df' = df /\ info' = info
             /\ notebook_log' = notebook_log]_vars

(* ------------------------------- C17 ----------------------------------- *)

\* The ids the CLI step of the domain takes as eligible.
EligibleIds(domain) ==
  CASE domain = "missing" -> all_missing_ids(info)
    [] domain = "outliers" -> all_outlier_ids(df, info)
    [] domain = "correlation" -> all_issue_ids(df, info, DefaultThreshold)
    [] domain = "encoding" -> IdSet(cat_info(df, info))
    [] domain = "scaling" -> IdSet(scale_info(df, info))
\* The positions of the eligible columns of the stored frame d.
EligibleAt(domain, d) ==
  CASE domain = "missing" -> {i \in 1..Len(d.cols) : CountNA(d.cols[i].vals) > 0}
    [] domain = "outliers" ->
         {i \in 1..Len(d.cols) : d.cols[i].name \in Range(with_outliers(d, NumericNames(d)))}
    [] domain = "correlation" ->
         {i \in 1..Len(d.cols) :
            d.cols[i].name \in Range(HighCorrCols(d, NumericNames(d), DefaultThreshold))}
    [] domain = "encoding" -> {i \in 1..Len(d.cols) : d.cols[i].name \in Range(cat_cols(d))}
    [] domain = "scaling" -> {i \in 1..Len(d.cols) : d.cols[i].name \in Range(numeric_cols(d))}
\* C17: a resolve-and-apply call whose plan leaves an eligible column
\* uncovered does not complete silently: it comes to wait for the decision
\* on the uncovered columns. Stated for the clean endpoints of the backends
\* and for the five CLI steps: such a call does not end with the step done
\* or the request answered 200.
C17_UncoveredAwaitsDecision ==
  [][/\ (pending.op \in Domains /\ Serving(pending.op) /\ ~pending.auto
            /\ EligibleAt(pending.op, SESSION_DATA[pending.sid]) \ AllIds(pending.plan) # {})
          => ~(pending' = NoRequest /\ resp'.status = 200)
     /\ (prog = "cli" /\ pc \in Domains /\ typed.kind = "plan" /\ ~typed.approve
            /\ EligibleIds(pc) \ AllIds(typed.plan) # {})
          => pc' # "done"]_vars

(* ------------------------------- C12 ----------------------------------- *)

\* C12: every endpoint that takes a session id, called with an id that was
\* never uploaded or that has been cleaned up, fails with not-found and
\* creates neither a dataset nor a log entry for that id.
C12_UnknownSessionNotFound ==
  [][(prog \in {"http", "tp"} /\ pending # NoRequest /\ ~Stored(pending.sid))
        => /\ resp'.status = 404
           /\ SESSION_DATA' = SESSION_DATA
           /\ SESSION_LOGS' = SESSION_LOGS
           /\ pending.sid \notin DOMAIN SESSION_DATA'
           /\ pending.sid \notin DOMAIN SESSION_LOGS']_vars
\* GET /analysis/univariate was asked for the session after its cleanup and
\* answered 404; neither dict has the id.
C12_Witness ==
  /\ prog = "http" /\ done.op = "univariate" /\ done.sid = "s1"
  /\ resp.status = 404
  /\ SESSION_DATA = <<>> /\ SESSION_LOGS = <<>>

(* ------------------------------- C20 ----------------------------------- *)

SuggestionOps ==
  {"missing_suggestions", "outliers_suggestions", "encoding_suggestions",
   "scaling_suggestions"}
\* C20: the suggestion endpoints for missing values, outliers, encoding and
\* scaling are read-only: a call leaves the stored datasets and the logs as
\* they were, and a call that follows the same call for the same session,
\* with nothing served in between, returns the same suggestions.
C20_SuggestionsReadOnly ==
  [][(prog \in {"http", "tp"} /\ pending.op \in SuggestionOps)
        => /\ SESSION_DATA' = SESSION_DATA
           /\ SESSION_LOGS' = SESSION_LOGS
           /\ (done.op = pending.op /\ done.sid = pending.sid) => resp' = resp]_vars
\* GET /suggestions/missing was served as the second request of a session
\* that no batch has changed: mode for the text column city among its
\* suggestions, the log with the upload entry alone.
C20_Witness ==
  /\ prog = "http" /\ done.op = "missing_suggestions" /\ nreq = 2 /\ nbatch = 0
  /\ resp.status = 200 /\ resp.message = "suggestions"
  /\ Entry("mode", 3) \in Range(resp.suggestions)
  /\ SESSION_DATA[done.sid] = DataA
  /\ Len(SESSION_LOGS[done.sid]) = 1


\* The columns of the frame d that hold a missing value.
HasMissing(d) == {i \in 1..Len(d.cols) : CountNA(d.cols[i].vals) > 0}
\* C14: when the missing-value step of the CLI is run with the global
\* suggestion approved and returns, no column of the resulting dataset holds
\* a missing value.
C14_ApprovedLeavesNoMissing ==
  [][(prog = "cli" /\ pc = "missing" /\ typed.kind = "plan" /\ typed.approve /\ pc' = "done")
       => HasMissing(df') = {}]_vars


\* The actions the suggestion rule allows for the column c of a frame of n
\* rows: drop_col above 50 % missing, else mode for a text column, else
\* median when |skew| > 1 and mean when |skew| <= 1 (either of the two when
\* the skew is not a number).
SuggestedActions(c, n) ==
  IF PctAbove50(CountNA(c.vals), n) THEN {"drop_col"}
  ELSE IF IsObject(c.dtype) THEN {"mode"}
  ELSE IF SkewAbove1(c.vals) THEN {"median"}
  ELSE IF Moments(c.vals).n >= 3 THEN {"mean"}
  ELSE {"mean", "median"}
\* sug gives one suggestion to each column of d that holds a missing value,
\* none to another column, and each follows the rule.
SuggestsMissing(sug, d) ==
  /\ {sug[i].cid : i \in 1..Len(sug)} = HasMissing(d)
  /\ \A i, j \in 1..Len(sug) : sug[i].cid = sug[j].cid => i = j
  /\ \A i \in 1..Len(sug) : sug[i].action \in SuggestedActions(d.cols[sug[i].cid], d.nrows)
\* C15: the missing-value suggestion, of the suggestion endpoint of both
\* backends and of the CLI step, gives a suggestion to exactly the columns
\* with at least one missing value: drop_col above 50 % missing, otherwise
\* mode for a categorical column, otherwise median when |skew| > 1 and mean
\* when |skew| <= 1.
C15_MissingSuggestionRule ==
  [][/\ Serving("missing_suggestions")
          => /\ resp'.status = 200
             /\ SuggestsMissing(resp'.suggestions, SESSION_DATA[pending.sid])
     /\ (prog = "cli" /\ pc = "missing" /\ typed.kind = "plan")
          => SuggestsMissing(generate_global_suggestion(df, info), df)]_vars


\* The float64/int64 columns of d with a value outside their IQR bounds.
HasOutliers(d) ==
  {i \in 1..Len(d.cols) : IsFloatOrInt64(d.cols[i].dtype) /\ has_outliers(d.cols[i].vals)}
\* sug gives one suggestion to each column of HasOutliers(d) and to no other:
\* remove_rows when more than 10 % of the rows are outliers, whatever the
\* name of the column, and cap otherwise.
SuggestsOutliers(sug, d) ==
  /\ {sug[i].cid : i \in 1..Len(sug)} = HasOutliers(d)
  /\ \A i, j \in 1..Len(sug) : sug[i].cid = sug[j].cid => i = j
  /\ \A i \in 1..Len(sug) :
        LET vals == d.cols[sug[i].cid].vals
        IN sug[i].action = IF PctAbove10(CountOutliers(vals, IqrBounds(vals)), d.nrows)
                           THEN "remove_rows" ELSE "cap"
\* C16: the outlier suggestion, of the suggestion endpoint of both backends
\* and of the CLI step, covers exactly the numeric columns with at least one
\* value outside [Q1 - 1.5 IQR, Q3 + 1.5 IQR], and suggests remove_rows when
\* the outlier percentage of the column is above 10 and cap otherwise; 'rain'
\* in the name of the column changes nothing.
C16_OutlierSuggestionRule ==
  [][/\ Serving("outliers_suggestions")
          => /\ resp'.status = 200
             /\ SuggestsOutliers(resp'.suggestions, SESSION_DATA[pending.sid])
     /\ (prog = "cli" /\ pc = "outliers" /\ typed.kind = "plan")
          => SuggestsOutliers(outlier_suggestion(outlier_cols_info(df, info)), df)]_vars


\* The dataset and the log a clean request r leaves when it is served alone
\* on the dataset and the log s (one outcome for each way the fill of
\* tp/backend.py can go).
Logged(logs, step, code) ==
  IF code # <<>> THEN Append(logs, [step |-> step, code |-> code]) ELSE logs
AfterDrop(r, s) ==
  LET names == ValidNames(ColNames(s.df), IdsOf(r.plan, "drop"))
  IN IF names = <<>> THEN {s}
     ELSE {[df |-> DropCols(s.df, Range(names)),
            logs |-> Logged(s.logs, "Drop Columns", <<Line("drop", names)>>)]}
AfterMissing(p, r, s) ==
  IF p = "http"
  THEN LET st == missing_apply_loop(s.df, r.plan)
       IN IF st.err THEN {[df |-> st.stored, logs |-> s.logs]}
          ELSE {[df |-> st.df, logs |-> Logged(s.logs, "Handle Missing Values", st.logs)]}
  ELSE {LET st == tp_missing_loop(s.df, r.plan, inplace)
        IN IF st.err THEN s
           ELSE [df |-> st.df, logs |-> Logged(s.logs, "Handle Missing Values", st.logs)] :
        inplace \in BOOLEAN}
After(p, r, s) == IF r.op = "drop" THEN AfterDrop(r, s) ELSE AfterMissing(p, r, s)
\* r1 served whole and then r2, or r2 and then r1.
SerialOutcomes(p, r1, r2, s) ==
  UNION {After(p, r2, m) : m \in After(p, r1, s)}
    \cup UNION {After(p, r1, m) : m \in After(p, r2, s)}
\* The requests between their load and their return.
InBatch == {t \in DOMAIN threads : threads[t].at \in {"save", "log"}}
BothServed == Len(threads) = 2 /\ \A t \in DOMAIN threads : threads[t].at = "done"
\* C18: at most one clean request of a session is between its load and its
\* return at any time, and once two requests of the session have both been
\* served the stored dataset and the log are those of serving one whole and
\* then the other, in one of the two orders.
C18_OneBatchInFlight ==
  /\ Cardinality(InBatch) <= 1
  /\ BothServed =>
       [df |-> SESSION_DATA["s1"], logs |-> SESSION_LOGS["s1"]]
          \in SerialOutcomes(prog, threads[1].req, threads[2].req, base)


\* The result has a boolean is_recommended, a list of warnings and a string
\* recommendation.
WellFormed(result) ==
  /\ result.is_recommended.t = "bool"
  /\ result.warnings \in Seq(STRING)
  /\ result.recommendation.t = "str"
\* C19: a call of validate_step made while the AI service is unavailable (no
\* credentials, a status other than 200, a network exception, a reply that
\* does not parse) does not raise; it returns a well-formed result whose
\* warnings tell of the failure, and it changes neither the dataset nor the
\* log of the session.
C19_UnavailableAdvisorWarns ==
  [][(advice' # advice /\ advice'.ai \in Unavailable)
       => /\ advice'.outcome = "returned"
          /\ WellFormed(advice'.result)
          /\ advice'.result.warnings # <<>>
          /\ SESSION_DATA' = SESSION_DATA /\ SESSION_LOGS' = SESSION_LOGS]_vars


\* The columns a plan names, its ids read against the names the columns had
\* when the batch started (positions in the backends, descriptor ids in the
\* CLI).
NamedByPosition(names, plan) ==
  {names[cid] : cid \in AllIds(plan) \cap (1..Len(names))}
NamedById(inf, plan) ==
  {RowOfId(inf, cid).column_name : cid \in AllIds(plan) \cap IdSet(inf)}
\* Every column of before that is not in named is in after as it was.
OthersKept(before, after, named) ==
  \A i \in 1..Len(before.cols) :
     before.cols[i].name \notin named =>
        /\ HasCol(after, before.cols[i].name)
        /\ GetCol(after, before.cols[i].name) = before.cols[i]
\* The plan lists an id again after it has dropped the column of that id.
DropsThenUses(plan) ==
  \E i, j \in 1..Len(plan) :
     i < j /\ plan[i].action = "drop_col" /\ plan[j].cid = plan[i].cid
\* C21: within one missing-value batch every id of the plan acts on the
\* column that held the id when the batch started: the columns the plan does
\* not name under that reading are left as they were, whatever was dropped
\* earlier in the batch, and unless the plan lists the id of a column it has
\* dropped no lookup fails.
C21_IdsResolvedAtBatchStart ==
  [][/\ Serving("missing")
          => /\ OthersKept(SESSION_DATA[pending.sid], SESSION_DATA'[pending.sid],
                           NamedByPosition(ColNames(SESSION_DATA[pending.sid]), pending.plan))
             /\ ~DropsThenUses(pending.plan) => resp'.status = 200
     /\ (prog = "cli" /\ pc = "missing" /\ typed.kind = "plan" /\ ~typed.approve)
          => /\ pc' # "crashed" => OthersKept(df, CliFrameNext, NamedById(info, typed.plan))
             /\ ~DropsThenUses(typed.plan) => pc' # "crashed"]_vars
C21_Witness ==
  /\ prog = "http" /\ done.op = "missing" /\ resp.status = 200
  /\ done.plan = <<Entry("drop_col", 1), Entry("mode", 3)>>
  /\ ColNames(SESSION_DATA[done.sid]) = <<"inc", "city">>
  /\ CountNA(GetCol(SESSION_DATA[done.sid], "city").vals) = 0

\* The ids a plan lists under cap.
CappedIds(plan) == {plan[i].cid : i \in {j \in 1..Len(plan) : plan[j].action = "cap"}}
\* Every value of the column lies within the bounds b.
WithinBounds(vals, b) == \A i \in 1..Len(vals) : IsNA(vals[i]) \/ InBounds(vals[i], b)
\* The bounds the outlier diagnostics give a column of the dataset d.
DiagnosticBounds(d, name) == IqrBounds(GetCol(d, name).vals)
\* The ids the CLI outlier prompt at hand applies a plan to.
OutlierTargets(rows) == IF pc = "outliers" THEN IdSet(rows) ELSE fr.uncovered_ids
CliCapsWithin(rows) ==
  \A cid \in CappedIds(typed.plan) \cap OutlierTargets(rows) :
     WithinBounds(GetCol(CliFrameNext, RowOfId(rows, cid).column_name).vals,
                  RowOfId(rows, cid).bounds)
\* C22: a cap of an outlier batch clips to the bounds the diagnostics computed
\* from the dataset as it was before the batch, whatever earlier actions of the
\* batch (a remove_rows on another column, say) did to the dataset: after the
\* batch every value of a capped column lies within those bounds.
C22_CapUsesDiagnosticBounds ==
  [][/\ (Serving("outliers") /\ resp'.status = 200)
          => \A cid \in CappedIds(pending.plan) \cap (1..Len(SESSION_DATA[pending.sid].cols)) :
                IsNumericDtype(SESSION_DATA[pending.sid].cols[cid].dtype)
                   => WithinBounds(SESSION_DATA'[pending.sid].cols[cid].vals,
                                   DiagnosticBounds(SESSION_DATA[pending.sid],
                                                    SESSION_DATA[pending.sid].cols[cid].name))
     /\ (/\ prog = "cli" /\ pc \in {"outliers", "outliers_choice"}
         /\ typed.kind \in {"plan", "choice"} /\ typed.plan # <<>>
         /\ pc' # "crashed")
          => CliCapsWithin(outlier_cols_info(df, info))]_vars

\* The plan is one cap of the id cid.
OneCap(plan, cid) == plan = <<Entry("cap", cid)>>
\* Capping vals with the bounds b gave after: a second cap with b changes
\* nothing and every value lies within b.
CappedOnce(vals, b, after) ==
  /\ after = Clip(vals, b)
  /\ Clip(after, b) = after
  /\ WithinBounds(after, b)
CliCappedOnce(rows) ==
  \A cid \in IdSet(rows) :
     OneCap(typed.plan, cid)
        => CappedOnce(GetCol(df, RowOfId(rows, cid).column_name).vals, RowOfId(rows, cid).bounds,
                      GetCol(CliFrameNext, RowOfId(rows, cid).column_name).vals)
\* C23: capping a column a second time with the same bounds gives the values
\* the first cap gave, and after a cap every value of the column that is not
\* missing lies within [lower, upper].
C23_CapIdempotent ==
  [][/\ Serving("outliers")
          => \A cid \in 1..Len(SESSION_DATA[pending.sid].cols) :
                (/\ OneCap(pending.plan, cid)
                 /\ IsNumericDtype(SESSION_DATA[pending.sid].cols[cid].dtype))
                   => CappedOnce(SESSION_DATA[pending.sid].cols[cid].vals,
                                 IqrBounds(SESSION_DATA[pending.sid].cols[cid].vals),
                                 SESSION_DATA'[pending.sid].cols[cid].vals)
     /\ (prog = "cli" /\ pc = "outliers" /\ typed.kind = "plan" /\ ~typed.approve)
          => CliCappedOnce(outlier_cols_info(df, info))]_vars
\* POST /clean/outliers capped inc of the first dataset, whose bounds are
\* [4, 4]: every value is 4 now.
C23_Witness ==
  /\ prog = "http" /\ done.op = "outliers" /\ resp.status = 200
  /\ done.plan = <<Entry("cap", 2)>>
  /\ ColNames(SESSION_DATA[done.sid]) = ColNames(DataA)
  /\ GetCol(SESSION_DATA[done.sid], "inc").vals = <<V(4), V(4), V(4), V(4), V(4)>>

\* Every column of names is in after, label-encoded from its values in
\* before and not expanded.
LabelKept(before, after, names) ==
  \A n \in names :
     /\ HasCol(after, n)
     /\ GetCol(after, n).vals = LabelEncode(GetCol(before, n).vals)
\* No label line of the logged code follows a one_hot line.
LabelFirst(logs) ==
  \A i, j \in 1..Len(logs[Len(logs)].code) :
     (i < j /\ logs[Len(logs)].code[i].op = "one_hot") => logs[Len(logs)].code[j].op # "label"
\* C24: in one encoding batch every label action is applied before the
\* one_hot pass, and a column the batch label-encoded is not expanded by the
\* one_hot pass, also when its id is listed under label and under one_hot.
C24_LabelBeforeOneHot ==
  [][/\ (Serving("encoding") /\ resp'.status = 200)
          => /\ LabelKept(SESSION_DATA[pending.sid], SESSION_DATA'[pending.sid],
                          Range(ValidNames(ColNames(SESSION_DATA[pending.sid]),
                                           IdsOf(pending.plan, "label"))))
             /\ SESSION_LOGS'[pending.sid] # SESSION_LOGS[pending.sid]
                   => LabelFirst(SESSION_LOGS'[pending.sid])
     /\ (prog = "cli" /\ pc = "encoding" /\ typed.kind = "plan" /\ ~typed.approve)
          => /\ LabelKept(df, df',
                          Range(NamesOfIds(info, SelectedIds(typed.plan, "label",
                                                             IdSet(cat_info(df, info))))))
             /\ notebook_log' # notebook_log => LabelFirst(notebook_log')]_vars

(* ------------------------ the encoding step alone ---------------------- *)

\* A file whose text column kind has one category and a missing cell.
DataOneCat ==
  [nrows |-> 5,
   cols |-> << Col("kind", "object", <<Str("a"), Str("a"), NA, Str("a"), Str("a")>>),
               Col("n", "int64", <<V(1), V(2), V(3), V(4), V(5)>>) >>]
EncodeDatasets == {DataA, DataB, DataOneCat}
\* A session of either backend, or the CLI before its encoding step, on one
\* of the files.
InitEncode ==
  \/ /\ prog \in {"http", "tp"}
     /\ \E d \in EncodeDatasets : SESSION_DATA = [s \in {"s1"} |-> d]
     /\ SESSION_LOGS = [s \in {"s1"} |->
                          <<[step |-> "Load Data", code |-> <<Line("read_csv", <<>>)>>]>>]
     /\ pending = NoRequest
     /\ resp = Ok("uploaded", NoColumns)
     /\ done = Served(Request("upload", "s1", <<>>, FALSE))
     /\ nreq = 0 /\ nbatch = 0
     /\ NoCli /\ NoSide
  \/ /\ prog = "cli" /\ NoBackend /\ NoSide
     /\ pc = "encoding"
     /\ df \in EncodeDatasets
     /\ info = get_df_info(df)
     /\ notebook_log = <<[step |-> "Load Data", code |-> <<Line("read_csv", <<>>)>>]>>
     /\ fr = NoFrame
     /\ typed = NoInput
NextEncode ==
  \/ SendEncoding /\ UNCHANGED offVars
  \/ TpSendEncoding /\ UNCHANGED offVars
  \/ api_encoding_apply /\ UNCHANGED offVars
  \/ apply_encoding /\ UNCHANGED offVars
  \/ TypeEncodingPlan
  \/ handle_categorical_encoding
SpecEncode == InitEncode /\ [][NextEncode]_vars

\* The plan is one one_hot of the id cid.
OneHotOnly(plan, cid) == plan = <<Entry("one_hot", cid)>>
\* The categorical column c of before, of k >= 1 categories, was expanded:
\* it is gone, k - 1 columns are new, and the descriptors inf number the
\* N + k - 2 columns of after.
Expanded(before, c, after, inf) ==
  LET k == NUnique(c.vals)
  IN /\ ~HasCol(after, c.name)
     /\ Range(ColNames(before)) \ {c.name} \subseteq Range(ColNames(after))
     /\ Cardinality(Range(ColNames(after)) \ Range(ColNames(before))) = k - 1
     /\ Len(after.cols) = Len(before.cols) + k - 2
     /\ Len(inf) = Len(before.cols) + k - 2
     /\ \A i \in 1..Len(inf) : inf[i].id = i
OneHotCase(before, plan, after, inf) ==
  \A cid \in 1..Len(before.cols) :
     (/\ OneHotOnly(plan, cid)
      /\ IsObject(before.cols[cid].dtype)
      /\ NUnique(before.cols[cid].vals) >= 1)
        => Expanded(before, before.cols[cid], after, inf)
\* C25: one_hot on a categorical column of k distinct categories (missing
\* cells aside) removes the column and adds exactly k - 1 indicator columns,
\* none when k = 1: a dataset of N columns has N + k - 2 afterwards and the
\* descriptors returned carry the ids 1..N + k - 2.
C25_OneHotColumnCount ==
  [][/\ (Serving("encoding") /\ resp'.status = 200)
          => OneHotCase(SESSION_DATA[pending.sid], pending.plan, SESSION_DATA'[pending.sid],
                        resp'.columns)
     /\ (prog = "cli" /\ pc = "encoding" /\ typed.kind = "plan" /\ ~typed.approve)
          => OneHotCase(df, typed.plan, df', info')]_vars
\* POST /clean/encoding expanded kind, of one category and a missing cell: the
\* column is gone and no indicator column was added.
C25_Witness ==
  /\ prog = "http" /\ done.op = "encoding" /\ resp.status = 200
  /\ done.plan = <<Entry("one_hot", 1)>>
  /\ ColNames(SESSION_DATA[done.sid]) = <<"n">>
  /\ Len(resp.columns) = 1

\* The lines of the logged code that record an action on a column.
ActionLines(code) == {i \in 1..Len(code) : code[i].op # "to_numeric"}
\* No column is named by two action lines of the code.
OncePerColumn(code) ==
  \A i, j \in ActionLines(code) : i # j => code[i].cols # code[j].cols
LastCode(logs) == logs[Len(logs)].code
\* C26: within one missing-value batch, the rounds of the uncovered-columns
\* resolution included, each column has at most one action applied to it: a
\* column handled by the initial plan or by a supplementary plan is not acted
\* on again by a later supplementary plan or by 'apply suggestions'.
C26_OneActionPerColumn ==
  /\ (prog = "cli" /\ pc = "missing_choice") => OncePerColumn(fr.log_code)
  /\ (/\ prog = "cli" /\ pc = "done"
      /\ LastCode(notebook_log) # <<>>
      /\ notebook_log[Len(notebook_log)].step = "Handle Missing Values")
        => OncePerColumn(LastCode(notebook_log))
  /\ (/\ prog \in {"http", "tp"} /\ done.op = "missing" /\ resp.status = 200
      /\ SESSION_LOGS[done.sid][Len(SESSION_LOGS[done.sid])].step = "Handle Missing Values")
        => OncePerColumn(LastCode(SESSION_LOGS[done.sid]))

\* C27: a clean request that fails part-way leaves the stored dataset of the
\* session as it was before the request: the changes of a plan reach the
\* session store through the final save only, so that the stored dataset
\* never holds a change without a log entry.
C27_FailedRequestChangesNothing ==
  [][(pending.op \in PlanOps /\ Serving(pending.op))
        => /\ resp'.status # 200
              => /\ SESSION_DATA' = SESSION_DATA
                 /\ SESSION_LOGS' = SESSION_LOGS
           /\ SESSION_DATA' # SESSION_DATA => SESSION_LOGS' # SESSION_LOGS]_vars

\* The plan names a column of the n columns, and none of the eligible ones.
OnlyIneligible(plan, n, eligible) ==
  /\ AllIds(plan) \cap (1..n) # {}
  /\ AllIds(plan) \cap eligible = {}
\* C28: a plan-applying operation acts on the columns eligible in its domain
\* only: an in-range id of an ineligible column leaves the column unchanged,
\* in the CLI steps and in the clean endpoints of the backends alike. Stated
\* for the plans whose in-range ids all name ineligible columns, which must
\* then leave the dataset as it was.
C28_IneligibleColumnsUntouched ==
  [][/\ (/\ pending.op \in Domains /\ Serving(pending.op) /\ ~pending.auto
         /\ OnlyIneligible(pending.plan, Len(SESSION_DATA[pending.sid].cols),
                           EligibleAt(pending.op, SESSION_DATA[pending.sid])))
          => SESSION_DATA' = SESSION_DATA
     /\ (/\ prog = "cli" /\ pc \in Domains /\ typed.kind = "plan" /\ ~typed.approve
         /\ OnlyIneligible(typed.plan, Len(info), EligibleIds(pc)))
          => CliFrameNext = df]_vars

(* ----------------------- the correlation step alone --------------------- *)

\* Two files of three numeric columns where sum = len + wid correlates with
\* len and with wid above 0.9 (r = 0.949) and len with wid below (r = 0.8):
\* sum between the two, and sum last.
DataChain ==
  [nrows |-> 5,
   cols |-> << Col("len", "int64", <<V(1), V(2), V(3), V(4), V(5)>>),
               Col("sum", "int64", <<V(2), V(5), V(5), V(9), V(9)>>),
               Col("wid", "int64", <<V(1), V(3), V(2), V(5), V(4)>>) >>]
DataChainLast ==
  [nrows |-> 5,
   cols |-> << Col("len", "int64", <<V(1), V(2), V(3), V(4), V(5)>>),
               Col("wid", "int64", <<V(1), V(3), V(2), V(5), V(4)>>),
               Col("sum", "int64", <<V(2), V(5), V(5), V(9), V(9)>>) >>]
CorrDatasets == {DataA, DataChain, DataChainLast}
\* A session of either backend, or the CLI before its correlation step, on
\* one of the files.
InitCorr ==
  \/ /\ prog \in {"http", "tp"}
     /\ \E d \in CorrDatasets : SESSION_DATA = [s \in {"s1"} |-> d]
     /\ SESSION_LOGS = [s \in {"s1"} |->
                          <<[step |-> "Load Data", code |-> <<Line("read_csv", <<>>)>>]>>]
     /\ pending = NoRequest
     /\ resp = Ok("uploaded", NoColumns)
     /\ done = Served(Request("upload", "s1", <<>>, FALSE))
     /\ nreq = 0 /\ nbatch = 0
     /\ NoCli /\ NoSide
  \/ /\ prog = "cli" /\ NoBackend /\ NoSide
     /\ pc = "correlation"
     /\ df \in CorrDatasets
     /\ info = get_df_info(df)
     /\ notebook_log = <<[step |-> "Load Data", code |-> <<Line("read_csv", <<>>)>>]>>
     /\ fr = NoFrame
     /\ typed = NoInput
NextCorr ==
  \/ SendCorrelation /\ UNCHANGED offVars
  \/ TpSendCorrelation /\ UNCHANGED offVars
  \/ api_corr /\ UNCHANGED offVars
  \/ handle_correlation /\ UNCHANGED offVars
  \/ TypeCorrelationPlan
  \/ handle_high_correlation
  \/ TypeCorrelationChoice
  \/ correlation_uncovered_loop
SpecCorr == InitCorr /\ [][NextCorr]_vars

\* No two numeric columns of before that are left in after were correlated
\* above the threshold in before.
Decorrelated(before, after) ==
  \A i, j \in {k \in NumericAt(before) : HasCol(after, before.cols[k].name)} :
     i # j => ~Correlated(before, i, j)
\* A numeric column of before with no correlated column to its left, the
\* leftmost of its group, is left in after.
LeftmostKept(before, after) ==
  \A j \in NumericAt(before) :
     (\A i \in NumericAt(before) : i < j => ~Correlated(before, i, j))
        => HasCol(after, before.cols[j].name)
DataGaps ==
  [nrows |-> 5,
   cols |-> << Col("h", "float64", <<V(1), NA, V(3), V(4), V(5)>>),
               Col("w", "float64", <<NA, V(2), V(2), V(3), V(4)>>),
               Col("kind", "object", <<Str("a"), Str("b"), NA, Str("a"), Str("a")>>) >>]
LoopDatasets == {DataA, DataB, DataGaps}
\* The CLI before its missing-value step on one of the files.
InitLoop ==
  /\ prog = "cli" /\ NoBackend /\ NoSide
  /\ pc = "missing"
  /\ df \in LoopDatasets
  /\ info = get_df_info(df)
  /\ notebook_log = <<[step |-> "Load Data", code |-> <<Line("read_csv", <<>>)>>]>>
  /\ fr = NoFrame
  /\ typed = NoInput
\* The caller answers the uncovered-columns prompt with 2, with 3, or with 1
\* and a supplementary plan that names an uncovered id no plan named before.
TypeNewId ==
  /\ prog = "cli" /\ pc = "missing_choice" /\ typed = NoInput
  /\ \/ \E choice \in {2, 3} : typed' = Input("choice", FALSE, <<>>, {}, choice, FALSE)
     \/ \E plan \in TypedPlans(MissingOrder, MaxExtraLen) :
          \E convert \in (IF HasAction(plan, "mean") \/ HasAction(plan, "median")
                          THEN BOOLEAN ELSE {FALSE}) :
             /\ AllIds(plan) \cap (fr.uncovered_ids \ fr.covered_ids) # {}
             /\ typed' = Input("choice", FALSE, plan, {}, 1, convert)
  /\ UNCHANGED <<pc, df, info, notebook_log, fr>>
  /\ Idle
NextLoop ==
  \/ TypeMissingPlan
  \/ handle_missing_values
  \/ TypeNewId
  \/ missing_uncovered_loop
\* The step function takes the answer typed at the prompt: what every turn
\* of missing_uncovered_loop does to typed, and no other step of NextLoop.
AnswerTaken ==
  /\ prog = "cli" /\ pc = "missing_choice" /\ typed.kind = "choice"
  /\ typed' = NoInput
\* input() returns once the caller has answered, and the step function runs
\* on from there: both are weakly fair.
SpecLoop ==
  /\ InitLoop
  /\ [][NextLoop]_vars
  /\ WF_vars(TypeNewId)
  /\ WF_typed(AnswerTaken)

\* The while loop of handle_missing_values is left: the step returned, or an
\* exception ended the program.
LoopLeft == pc \in {"done", "crashed"}
\* One turn of the loop: 2 and 3 leave it, and so does a supplementary plan
\* when the ids named in all rounds cover the uncovered ids.
LeavesWhenCovered ==
  (prog = "cli" /\ pc = "missing_choice" /\ typed.kind = "choice")
     => /\ typed.choice \in {2, 3} => pc' # "missing_choice"
        /\ (/\ typed.choice = 1
            /\ fr.uncovered_ids \subseteq fr.covered_ids \cup AllIds(typed.plan))
              => pc' # "missing_choice"
\* The rounds that asked again are fewer than the uncovered ids.
RoundsBounded == pc = "missing_choice" => fr.rounds < Cardinality(fr.uncovered_ids)
\* C30: the uncovered-columns loop of the missing-value step terminates: it
\* is left as soon as the caller chooses 'apply suggestions' or 'leave as-is',
\* and under repeated supplementary plans it is left once the ids named in
\* all rounds cover every uncovered id, after at most as many rounds as there
\* are uncovered ids when each round names a new uncovered id.
C30_UncoveredLoopTerminates ==
  /\ (pc = "missing_choice") ~> LoopLeft
  /\ [][LeavesWhenCovered]_vars
  /\ []RoundsBounded
\* Three columns were uncovered and two supplementary plans named one each:
\* the loop asks for the third.
C30_Witness ==
  /\ prog = "cli" /\ pc = "missing_choice"
  /\ fr.rounds = 2
  /\ Cardinality(fr.uncovered_ids) = 3
  /\ Cardinality(fr.uncovered_ids \ fr.covered_ids) = 1

====
